---- MODULE Spec2Model ----
(***************************************************************************)
(* SentimentX: the multi-source data resolution and derived-indicator      *)
(* pipeline.                                                               *)
(*                                                                         *)
(*   - src/src/lib/forecast.ts (second half, src/app/api/prices/route.ts): *)
(*     providerOrder, the four price fetchers and resolvePrices.           *)
(*   - src/unnamed/part_004 (src/lib/tickerExtractor.ts):                  *)
(*     extractTickersRich.                                                 *)
(*   - src/unnamed/part_000 (src/lib/ragRetriever.ts): the four caches,    *)
(*     the dataset loader, the Finnhub helpers, getQuickStats and          *)
(*     retrievePriceFeatures.                                              *)
(*   - src/src/lib/forecast.ts (POST of /api/prices): the handler and its  *)
(*     response cache.                                                     *)
(*   - src/unnamed/part_008 (/api/ohlc): the three candle clients and the  *)
(*     GET handler.                                                        *)
(*   - src/unnamed/part_009 (src/lib/portfolio.ts): screenRows,            *)
(*     fillSectorWithFallback, buildPortfolio and                          *)
(*     buildPortfolioSectorBalanced.                                       *)
(*   - src/src/lib/technicals.ts: rsi.                                     *)
(*                                                                         *)
(* Strings that the code inspects character by character (tickers, text,   *)
(* company names) are sequences of one-character strings.  JavaScript      *)
(* numbers are exact rationals; "undefined" is a value with def = FALSE.   *)
(***************************************************************************)
EXTENDS Integers, Sequences, FiniteSets, TLC

VARIABLES
    \* ---- /api/prices (forecast.ts) ----
    ENV,          \* process.env as read at module load (forecast.ts 121-127)
    pc,           \* position of the resolvePrices call
    tickers,      \* resolvePrices: normalized, de-duplicated request
    prices,       \* resolvePrices: ticker -> price (a partial function)
    errors,       \* resolvePrices: ticker -> error note (a partial function)
    chain,        \* resolvePrices: providerOrder() at the start of the call
    idx,          \* resolvePrices: index of the next provider of chain
    log,          \* history: one record per provider call made
    health,       \* last answer of the GET health ping
    \* ---- tickerExtractor (part_004) ----
    rx,           \* last extractTickersRich call: its arguments and result
    \* ---- ragRetriever (part_000) ----
    clock,        \* Date.now()
    ticks,        \* number of clock advances so far
    calls,        \* number of public calls so far
    FINNHUB_KEY,  \* whether FINNHUB_API_KEY is set
    upstream,     \* what the Finnhub endpoints and the public JSON file hold
    quoteCache, metricCache, candleCache, datasetCache,
    last,         \* history: the last cache lookup made on its own
    qs,           \* the getQuickStats call: its position, locals and result
    \* ---- /api/prices POST handler (forecast.ts 345-372) ----
    PRICE_CACHE,  \* G.__PRICE_CACHE__: key -> CacheEntry
    post,         \* the POST call: its position, locals and reply
    \* ---- /api/ohlc (part_008) ----
    ohlc,         \* the GET call: process.env, its position, locals and reply
    \* ---- portfolio builder (part_009) ----
    pf,           \* the last builder call: its arguments and result
    \* ---- indicators (part_000, technicals.ts) ----
    ind,          \* the last indicator call: its arguments and result
    \* ---- fillSectorWithFallback, statement by statement (part_009) ----
    fill,         \* the call in progress: its arguments, floors and pool
    \* ---- overlapping calls of the live lookups (part_000) ----
    race,         \* the calls, the requests sent and the last call to complete
    \* ---- the dataset loads of loadRow (part_000) ----
    loads,        \* reads of the dataset source and rows normalized so far
    \* ---- the paper-trading ledger of /api/portfolio (part_019) ----
    led           \* the stored ledger and the requests in progress

pvars == <<ENV, pc, tickers, prices, errors, chain, idx, log, health>>
rvars == <<rx>>
svars == <<clock, ticks, calls, FINNHUB_KEY, upstream, quoteCache, metricCache,
           candleCache, datasetCache, last, qs>>
hvars == <<PRICE_CACHE, post>>
ovars == <<ohlc>>
fvars == <<pf>>
ivars == <<ind>>
lvars == <<fill>>
cvars == <<race>>
dvars == <<loads>>
bvars == <<led>>
zvars == <<lvars, cvars, dvars, bvars>>
wvars == <<hvars, ovars, fvars, ivars>>
notFill == <<pvars, rvars, svars, wvars, cvars, dvars, bvars>>
notRace == <<pvars, rvars, wvars, lvars, dvars, bvars>>
notLoads == <<pvars, rvars, wvars, lvars, cvars, bvars>>
notLedger == <<pvars, rvars, svars, wvars, lvars, cvars, dvars>>
xvars == <<hvars, ovars, fvars, ivars, zvars>>
vars == <<pvars, rvars, svars, xvars>>

(***************************************************************************)
(* Characters and strings                                                  *)
(***************************************************************************)
LowerCase == <<"a","b","c","d","e","f","g","h","i","j","k","l","m",
               "n","o","p","q","r","s","t","u","v","w","x","y","z">>
UpperCase == <<"A","B","C","D","E","F","G","H","I","J","K","L","M",
               "N","O","P","Q","R","S","T","U","V","W","X","Y","Z">>
Digits == {"0","1","2","3","4","5","6","7","8","9"}

IsLower(c) == \E i \in 1..26 : LowerCase[i] = c
IsUpper(c) == \E i \in 1..26 : UpperCase[i] = c
ToUpperCh(c) == IF IsLower(c) THEN UpperCase[CHOOSE i \in 1..26 : LowerCase[i] = c] ELSE c
ToLowerCh(c) == IF IsUpper(c) THEN LowerCase[CHOOSE i \in 1..26 : UpperCase[i] = c] ELSE c

toUpperCase(s) == [i \in 1..Len(s) |-> ToUpperCh(s[i])]
toLowerCase(s) == [i \in 1..Len(s) |-> ToLowerCh(s[i])]

RECURSIVE TrimLeft(_)
TrimLeft(s) == IF Len(s) > 0 /\ s[1] = " " THEN TrimLeft(Tail(s)) ELSE s
RECURSIVE TrimRight(_)
TrimRight(s) == IF Len(s) > 0 /\ s[Len(s)] = " " THEN TrimRight(SubSeq(s, 1, Len(s) - 1)) ELSE s
trim(s) == TrimRight(TrimLeft(s))

\* Array.from(new Set(xs)): the distinct elements, each at its first occurrence.
RECURSIVE Uniq(_)
Uniq(xs) ==
    IF xs = <<>> THEN <<>>
    ELSE LET init == Uniq(SubSeq(xs, 1, Len(xs) - 1))
             x == xs[Len(xs)]
         IN IF \E i \in 1..Len(init) : init[i] = x THEN init ELSE Append(init, x)

Reverse(xs) == [i \in 1..Len(xs) |-> xs[Len(xs) + 1 - i]]

Range(xs) == {xs[i] : i \in 1..Len(xs)}

\* All sequences over S of length lo..hi.
SeqsOf(S, lo, hi) == UNION {[1..n -> S] : n \in lo..hi}

(***************************************************************************)
(* Numbers: exact rationals n/d with d > 0, and undefined                  *)
(***************************************************************************)
RECURSIVE Gcd(_, _)
Gcd(a, b) == IF b = 0 THEN a ELSE Gcd(b, a % b)
Abs(a) == IF a < 0 THEN -a ELSE a

Undefined == [def |-> FALSE, n |-> 0, d |-> 1]
Rat(a, b) ==
    LET s == IF b < 0 THEN -1 ELSE 1
        g == Gcd(Abs(a), Abs(b))
    IN [def |-> TRUE, n |-> (s * a) \div g, d |-> (s * b) \div g]
Int2(a) == [def |-> TRUE, n |-> a, d |-> 1]
IsNum(x) == x.def
RAdd(x, y) == Rat(x.n * y.d + y.n * x.d, x.d * y.d)
RSub(x, y) == Rat(x.n * y.d - y.n * x.d, x.d * y.d)
RMul(x, y) == Rat(x.n * y.n, x.d * y.d)
RDiv(x, y) == Rat(x.n * y.d, x.d * y.n)
RLt(x, y) == x.n * y.d < y.n * x.d
RLe(x, y) == x.n * y.d <= y.n * x.d
IsZero(x) == x.n = 0

\* a ?? b
Coalesce(a, b) == IF IsNum(a) THEN a ELSE b

(***************************************************************************)
(* /api/prices: configuration and provider order (forecast.ts 119-150)     *)
(***************************************************************************)
Providers == {"polygon", "iex", "finnhub", "alphavantage"}
ORDER == <<"polygon", "iex", "finnhub", "alphavantage">>

\* The spelling of a provider name, as the characters PRICES_PROVIDER is
\* compared with.
Spelling(p) ==
    CASE p = "polygon" -> <<"p","o","l","y","g","o","n">>
      [] p = "iex" -> <<"i","e","x">>
      [] p = "finnhub" -> <<"f","i","n","n","h","u","b">>
      [] p = "alphavantage" -> <<"a","l","p","h","a","v","a","n","t","a","g","e">>

\* ENV.PREFERRED: (process.env.PRICES_PROVIDER || "").toLowerCase()
PREFERRED(raw) == toLowerCase(raw)

hasProvider(env, p) ==
    CASE p = "polygon" -> env.POLYGON_KEY
      [] p = "iex" -> env.IEX_KEY
      [] p = "finnhub" -> env.FINNHUB_KEY
      [] p = "alphavantage" -> env.AV_KEY

RECURSIVE KeepConfigured(_, _)
KeepConfigured(env, ps) ==
    IF ps = <<>> THEN <<>>
    ELSE IF hasProvider(env, Head(ps)) THEN <<Head(ps)>> \o KeepConfigured(env, Tail(ps))
         ELSE KeepConfigured(env, Tail(ps))

RECURSIVE Without(_, _)
Without(ps, pref) ==
    IF ps = <<>> THEN <<>>
    ELSE IF Spelling(Head(ps)) # pref THEN <<Head(ps)>> \o Without(Tail(ps), pref)
         ELSE Without(Tail(ps), pref)

\* A buggy order: the preferred provider is not removed from the rest.
providerOrderDup(env) ==
    LET pref == PREFERRED(env.PRICES_PROVIDER)
        prefer == IF pref # <<>> /\ \E i \in 1..Len(ORDER) : Spelling(ORDER[i]) = pref
                  THEN <<CHOOSE p \in Providers : Spelling(p) = pref>> ELSE <<>>
    IN KeepConfigured(env, prefer \o ORDER)

providerOrder(env) ==
    LET pref == PREFERRED(env.PRICES_PROVIDER)
        prefer == IF pref # <<>> /\ \E i \in 1..Len(ORDER) : Spelling(ORDER[i]) = pref
                  THEN <<CHOOSE p \in Providers : Spelling(p) = pref>> ELSE <<>>
        rest == Without(ORDER, pref)
    IN KeepConfigured(env, prefer \o rest)

\* normTicker: String(t || "").trim().toUpperCase()
normTicker(t) == toUpperCase(trim(t))

\* round2 of a finite number given in thousandths: Math.round(n * 100) / 100,
\* in hundredths (Math.round rounds a half up).
round2(mills) == (mills + 5) \div 10

(***************************************************************************)
(* The price fetchers (forecast.ts 174-301).  Each is given the tickers    *)
(* asked for and what the upstream API answers per ticker:                 *)
(*   [k |-> "ok", p |-> m]  a 2xx answer carrying the number m/1000        *)
(*   [k |-> "nop"]          a 2xx answer without a usable price            *)
(*   [k |-> "http"]         a non-2xx status                               *)
(*   [k |-> "network"]      fetch or json() throws                         *)
(* and returns {prices, errors} over the tickers asked.                    *)
(***************************************************************************)
NoMap == [t \in {} |-> 0]

\* Object.assign(target, source)
ObjectAssign(target, source) ==
    [t \in (DOMAIN target) \cup (DOMAIN source) |->
        IF t \in DOMAIN source THEN source[t] ELSE target[t]]

fetchPolygon(asked, resp) ==
    LET A == Range(asked)
        \* 1) last trade
        out1 == {t \in A : resp[t].last.k = "ok"}
        \* (the note of a failed last trade is always replaced in step 2)
        \* 2) previous close, only for the tickers still missing
        missing == A \ out1
        out2 == {t \in missing : resp[t].prev.k = "ok"}
        err2(t) == CASE resp[t].prev.k = "nop" -> "polygon: no prev close"
                     [] resp[t].prev.k = "http" -> "polygon prev: status"
                     [] resp[t].prev.k = "network" -> "polygon prev: network_error"
    IN [prices |-> [t \in out1 \cup out2 |->
                       IF t \in out1 THEN round2(resp[t].last.p) ELSE round2(resp[t].prev.p)],
        errors |-> [t \in missing \ out2 |-> err2(t)]]

fetchIEX(asked, resp) ==
    LET A == Range(asked)
        ok == {t \in A : resp.q[t].k = "ok"}
    IN IF resp.batch = "ok"
       THEN [prices |-> [t \in ok |-> round2(resp.q[t].p)],
             errors |-> [t \in A \ ok |-> "iex: no price"]]
       ELSE [prices |-> NoMap,
             errors |-> [t \in A |-> IF resp.batch = "http" THEN "iex: http status"
                                     ELSE "iex: error"]]

fetchFinnhub(asked, resp) ==
    LET A == Range(asked)
        ok == {t \in A : resp[t].k = "ok"}
    IN [prices |-> [t \in ok |-> round2(resp[t].p)],
        errors |-> [t \in A \ ok |->
                       CASE resp[t].k = "nop" -> "finnhub: no price"
                         [] resp[t].k = "http" -> "finnhub: http status"
                         [] resp[t].k = "network" -> "finnhub: error"]]

fetchAlphaVantage(asked, resp) ==
    LET A == Range(asked)
        ok == {t \in A : resp[t].k = "ok"}
    IN [prices |-> [t \in ok |-> round2(resp[t].p)],
        errors |-> [t \in A \ ok |->
                       CASE resp[t].k = "nop" -> "alphavantage: no price"
                         [] resp[t].k = "http" -> "alphavantage: http status"
                         [] resp[t].k = "network" -> "alphavantage: error"]]

(***************************************************************************)
(* resolvePrices (forecast.ts 307-341), one step per awaited provider      *)
(***************************************************************************)
RECURSIVE NormAll(_)
NormAll(raw) ==
    IF raw = <<>> THEN <<>>
    ELSE LET t == normTicker(Head(raw))
         IN IF t # <<>> THEN <<t>> \o NormAll(Tail(raw)) ELSE NormAll(Tail(raw))

RECURSIVE Unpriced(_, _)
Unpriced(ts, pr) ==
    IF ts = <<>> THEN <<>>
    ELSE IF Head(ts) \notin DOMAIN pr THEN <<Head(ts)>> \o Unpriced(Tail(ts), pr)
         ELSE Unpriced(Tail(ts), pr)

\* A buggy loop: every provider is asked for every ticker.
remainingAll(ts, pr) == ts

\* const remaining = tickers.filter((t) => prices[t] === undefined)
remaining(ts, pr) == Unpriced(ts, pr)

\* What the upstream of provider p may answer for the tickers asked.
Responses(p, asked, U) ==
    LET A == Range(asked)
        Ok == {u \in U : u.k = "ok"}
    IN CASE p = "polygon" ->
              [A -> {[last |-> a, prev |-> b] : a \in U, b \in U}
                     \ {x \in {[last |-> a, prev |-> b] : a \in U, b \in U} :
                           x.last.k = "ok" /\ x.prev # x.last}]
         [] p = "iex" ->
              {[batch |-> "ok", q |-> f] : f \in [A -> {u \in U : u.k \in {"ok", "nop"}}]}
              \cup {[batch |-> b, q |-> [t \in A |-> [k |-> "nop"]]] :
                       b \in {u.k : u \in U} \cap {"http", "network"}}
         [] OTHER -> [A -> U]

fetchBy(p, asked, resp) ==
    CASE p = "polygon" -> fetchPolygon(asked, resp)
      [] p = "iex" -> fetchIEX(asked, resp)
      [] p = "finnhub" -> fetchFinnhub(asked, resp)
      [] p = "alphavantage" -> fetchAlphaVantage(asked, resp)

\* ---- inputs of the /api/prices model ----
MaxReq == 2
RawTickers == { <<" ","a","a","p","l">>, <<"A","A","P","L">>,
                <<"m","s","f","t"," ">>, <<" ">> }
RawPreferred == { <<>>, <<"p","o","l","y","g","o","n">>, <<"I","E","X">>,
                  <<"f","i","n","n","h","u","b">>,
                  <<"a","l","p","h","a","v","a","n","t","a","g","e">>,
                  <<"t","i","i","n","g","o">> }
UpstreamAnswers == { [k |-> "ok", p |-> 1004], [k |-> "ok", p |-> 2005],
                     [k |-> "nop", p |-> 0], [k |-> "http", p |-> 0] }

\* What the upstreams answer while a POST is being served.
PostAnswers == { [k |-> "ok", p |-> 1004], [k |-> "http", p |-> 0] }

NoHealth == [ok |-> FALSE, providerOrder |-> <<>>]

PInit ==
    /\ ENV \in [PRICES_PROVIDER : RawPreferred, POLYGON_KEY : BOOLEAN,
                IEX_KEY : BOOLEAN, FINNHUB_KEY : BOOLEAN, AV_KEY : BOOLEAN]
    /\ pc = "idle"
    /\ tickers = <<>>
    /\ prices = NoMap
    /\ errors = NoMap
    /\ chain = <<>>
    /\ idx = 1
    /\ log = <<>>
    /\ health = NoHealth

\* ---- the other components at rest ----
RIdle == rx = [called |-> FALSE]
SIdle ==
    /\ clock = 0 /\ ticks = 0 /\ calls = 0 /\ FINNHUB_KEY = FALSE
    /\ upstream = <<>>
    /\ quoteCache = NoMap /\ metricCache = NoMap /\ candleCache = NoMap
    /\ datasetCache = NoMap /\ last = [op |-> "none"] /\ qs = [pc |-> "idle"]
HIdle == PRICE_CACHE = NoMap /\ post = [pc |-> "idle", count |-> 0]
OIdle == ohlc = [pc |-> "idle"]
FIdle == pf = [pc |-> "idle"]
IIdle == ind = [pc |-> "idle"]
LIdle == fill = [pc |-> "idle"]
CIdle == race = [on |-> FALSE]
DIdle == loads = [reads |-> 0, normalized |-> 0]
BIdle == led = [on |-> FALSE]
ZIdle == LIdle /\ CIdle /\ DIdle /\ BIdle
XIdle == HIdle /\ OIdle /\ FIdle /\ IIdle /\ ZIdle

\* resolvePrices(tickersRaw), up to its first await (lines 308-321).
ResolveBegin(raw) ==
    /\ LET ts == Uniq(NormAll(raw))
           ch == providerOrder(ENV)
       IN /\ tickers' = ts
          /\ chain' = ch
          /\ pc' = IF ch = <<>> THEN "threw"
                   ELSE IF remaining(ts, NoMap) = <<>> THEN "done" ELSE "loop"
    /\ prices' = NoMap
    /\ errors' = NoMap
    /\ idx' = 1
    /\ log' = <<>>

\* resolvePrices called on its own (it is exported, line 388).
ResolveStart ==
    /\ pc = "idle"
    /\ \E raw \in SeqsOf(RawTickers, 0, MaxReq) : ResolveBegin(raw)
    /\ UNCHANGED <<ENV, health, rvars, svars, xvars>>

\* One iteration of the loop: the awaited fetch returns, its result is merged,
\* and the loop goes on to its next test (lines 319-336).
ProviderStep ==
    /\ pc = "loop"
    /\ LET p == chain[idx]
           asked == remaining(tickers, prices)
       IN \E resp \in Responses(p, asked, IF post.pc = "await" THEN PostAnswers
                                           ELSE UpstreamAnswers) :
            LET res == fetchBy(p, asked, resp)
                pr == ObjectAssign(prices, res.prices)
            IN /\ prices' = pr
               /\ errors' = ObjectAssign(errors, res.errors)
               /\ log' = Append(log, [provider |-> p, asked |-> asked,
                                      prices |-> res.prices])
               /\ idx' = idx + 1
               /\ pc' = IF idx + 1 > Len(chain) \/ remaining(tickers, pr) = <<>>
                        THEN "done" ELSE "loop"
    /\ UNCHANGED <<ENV, tickers, chain, health, rvars, svars, xvars>>

\* return { prices, source, filled, errors } (lines 338-340)
resolveResult ==
    [prices |-> prices, source |-> chain[1],
     filled |-> Cardinality(DOMAIN prices), errors |-> errors]

\* The call is over (returned or threw): its locals are gone.
ResolveEnd ==
    /\ pc \in {"done", "threw"}
    /\ pc' = "idle"
    /\ tickers' = <<>> /\ prices' = NoMap /\ errors' = NoMap
    /\ chain' = <<>> /\ idx' = 1 /\ log' = <<>>
    /\ UNCHANGED <<ENV, health, rvars, svars, xvars>>

\* GET: the health ping (lines 374-387).
HealthPing ==
    /\ health' = [ok |-> TRUE, providerOrder |-> providerOrder(ENV)]
    /\ UNCHANGED <<ENV, pc, tickers, prices, errors, chain, idx, log, rvars, svars, xvars>>

PNext == ResolveStart \/ ProviderStep \/ ResolveEnd \/ HealthPing

InitPrices == PInit /\ RIdle /\ SIdle /\ XIdle

SpecPrices == InitPrices /\ [][PNext]_vars

(***************************************************************************)
(* Claims about /api/prices                                                *)
(***************************************************************************)
OrderIdx(p) == CHOOSE i \in 1..Len(ORDER) : ORDER[i] = p
Configured == {p \in Providers : hasProvider(ENV, p)}
PreferredValid ==
    \E p \in Configured : Spelling(p) = toLowerCase(ENV.PRICES_PROVIDER)

IsContractOrder(L) ==
    /\ Range(L) = Configured
    /\ Len(L) = Cardinality(Range(L))
    /\ PreferredValid => Spelling(L[1]) = toLowerCase(ENV.PRICES_PROVIDER)
    /\ \A i, j \in 1..Len(L) :
         (i < j /\ (i > 1 \/ ~PreferredValid)) => OrderIdx(L[i]) < OrderIdx(L[j])

\* C10: providerOrder lists exactly the configured providers, each once, the
\* preferred provider first when it is a valid name and configured, the rest
\* in the priority polygon, iex, finnhub, alphavantage; an unconfigured or
\* invalid preferred provider does not appear.  Stated of every list the
\* health ping has answered and of every chain resolvePrices has built.
C10_ProviderOrder ==
    /\ health.ok => IsContractOrder(health.providerOrder)
    /\ pc # "idle" => IsContractOrder(chain)

\* C10 witness: PRICES_PROVIDER is "IEX" (in capitals), all four keys are
\* set, and the ping has answered with iex first and the rest in priority.
C10_Witness ==
    /\ health.ok
    /\ ENV.PRICES_PROVIDER = <<"I","E","X">>
    /\ Configured = Providers
    /\ health.providerOrder = <<"iex", "polygon", "finnhub", "alphavantage">>

PricedBefore(i) == UNION {DOMAIN log[j].prices : j \in 1..(i - 1)}

\* C9: in resolvePrices the providers are tried in the constructed order, each
\* is asked only for the tickers that have no price yet, the loop stops as
\* soon as every ticker has a price, and the final price of a ticker is the
\* one returned by the first provider of the order that returned a price for
\* it (a price once set is never overwritten).
C9_ProgressiveFill ==
    pc \in {"loop", "done"} =>
      /\ Len(log) <= Len(chain)
      /\ \A i \in 1..Len(log) :
           /\ log[i].provider = chain[i]
           /\ Range(log[i].asked) = Range(tickers) \ PricedBefore(i)
           /\ log[i].asked # <<>>
      /\ pc = "loop" => Range(tickers) \ DOMAIN prices # {}
      /\ pc = "done" => (Len(log) = Len(chain) \/ Range(tickers) \subseteq DOMAIN prices)
      /\ DOMAIN prices = PricedBefore(Len(log) + 1)
      /\ \A t \in DOMAIN prices :
           LET first == CHOOSE i \in 1..Len(log) :
                           /\ t \in DOMAIN log[i].prices
                           /\ t \notin PricedBefore(i)
           IN prices[t] = log[first].prices[t]

\* C9 witness: a finished call in which the first provider priced one ticker
\* and the second provider, asked for the other only, priced that one.
C9_Witness ==
    /\ pc = "done"
    /\ Len(log) = 2
    /\ Len(tickers) = 2
    /\ Cardinality(DOMAIN log[1].prices) = 1
    /\ Len(log[2].asked) = 1
    /\ DOMAIN prices = Range(tickers)

(***************************************************************************)
(* tickerExtractor (part_004): strings and tables                          *)
(***************************************************************************)
\* The pieces of s between maximal runs of characters of Sep
\* (s.split(/[Sep]+/).filter(Boolean)).
RECURSIVE SplitAcc(_, _, _, _)
SplitAcc(s, Sep, cur, acc) ==
    IF s = <<>> THEN (IF cur = <<>> THEN acc ELSE Append(acc, cur))
    ELSE IF Head(s) \in Sep
         THEN SplitAcc(Tail(s), Sep, <<>>, IF cur = <<>> THEN acc ELSE Append(acc, cur))
         ELSE SplitAcc(Tail(s), Sep, Append(cur, Head(s)), acc)
SplitOn(s, Sep) == SplitAcc(s, Sep, <<>>, <<>>)

RECURSIVE JoinWith(_, _)
JoinWith(ws, sep) ==
    IF ws = <<>> THEN <<>>
    ELSE IF Len(ws) = 1 THEN ws[1]
         ELSE ws[1] \o sep \o JoinWith(Tail(ws), sep)

\* haystack.includes(needle)
includes(haystack, needle) ==
    \E i \in 1..(Len(haystack) - Len(needle) + 1) :
        SubSeq(haystack, i, i + Len(needle) - 1) = needle

\* tokenize: split on /[\s,;:\/()\[\]{}|]+/ (the texts of the model hold no
\* zero-width characters and no curly quotes, which tokenize removes first).
TokenSeparators == {" ", ",", ";", ":", "/", "(", ")", "[", "]", "{", "}", "|"}
tokenize(text) == SplitOn(text, TokenSeparators)

\* norm: lower-case, "&" -> " and ", every character outside [a-z0-9\s.]
\* -> " ", runs of white space -> one space, trim.
RECURSIVE NormChars(_)
NormChars(s) ==
    IF s = <<>> THEN <<>>
    ELSE LET c == ToLowerCh(Head(s))
         IN (IF c = "&" THEN <<" ","a","n","d"," ">>
             ELSE IF IsLower(c) \/ c \in Digits \/ c = " " \/ c = "." THEN <<c>>
             ELSE <<" ">>) \o NormChars(Tail(s))
norm(s) == JoinWith(SplitOn(NormChars(s), {" "}), <<" ">>)

\* raw.replace(/^[\$#]/, "").replace(/[?!\.,]+$/g, "")
RECURSIVE StripTrailingPunct(_)
StripTrailingPunct(s) ==
    IF s # <<>> /\ s[Len(s)] \in {"?", "!", ".", ","}
    THEN StripTrailingPunct(SubSeq(s, 1, Len(s) - 1)) ELSE s
core(raw) ==
    StripTrailingPunct(IF raw # <<>> /\ raw[1] \in {"$", "#"} THEN Tail(raw) ELSE raw)

AllUpper(s) == \A i \in 1..Len(s) : IsUpper(s[i])
\* /^[A-Z]{1,5}(\.[A-Z])?$/
IsSymbolShape(s) ==
    \/ Len(s) \in 1..5 /\ AllUpper(s)
    \/ /\ Len(s) \in 3..7
       /\ s[Len(s) - 1] = "."
       /\ IsUpper(s[Len(s)])
       /\ AllUpper(SubSeq(s, 1, Len(s) - 2))

\* A sample of SP500_COMPANIES (ticker -> company name), in insertion order.
SP500_COMPANIES ==
    << [t |-> <<"A","A","P","L">>, company |-> <<"A","p","p","l","e"," ","I","n","c",".">>],
       [t |-> <<"A","M","Z","N">>, company |-> <<"A","m","a","z","o","n",".","c","o","m",","," ","I","n","c",".">>],
       [t |-> <<"M","S","F","T">>, company |-> <<"M","i","c","r","o","s","o","f","t"," ","C","o","r","p","o","r","a","t","i","o","n">>],
       [t |-> <<"T","S","L","A">>, company |-> <<"T","e","s","l","a",","," ","I","n","c",".">>] >>
EXTRA_TICKERS == << <<"S","P","Y">>, <<"Q","Q","Q">>, <<"D","I","A">> >>
TICKERS_SET == {SP500_COMPANIES[i].t : i \in 1..Len(SP500_COMPANIES)} \cup Range(EXTRA_TICKERS)

\* The entries of MANUAL_ALIASES whose tickers are in the sample.
MANUAL_ALIASES ==
    << [alias |-> <<"m","i","c","r","o","s","o","f","t">>, list |-> << <<"M","S","F","T">> >>],
       [alias |-> <<"a","p","p","l","e">>, list |-> << <<"A","A","P","L">> >>],
       [alias |-> <<"t","e","s","l","a">>, list |-> << <<"T","S","L","A">> >>] >>

\* n.replace(/\b(incorporated|inc|corp(oration)?|company|co|plc|ltd|limited)\b/g, "")
\* then white space collapsed and trimmed.  On a normalized name a word
\* boundary lies at each space and on both sides of each ".".
LegalSuffixes == { <<"i","n","c","o","r","p","o","r","a","t","e","d">>, <<"i","n","c">>, <<"c","o","r","p">>, <<"c","o","r","p","o","r","a","t","i","o","n">>,
                   <<"c","o","m","p","a","n","y">>, <<"c","o">>, <<"p","l","c">>, <<"l","t","d">>, <<"l","i","m","i","t","e","d">> }
RECURSIVE Pieces(_, _, _)
\* s cut into maximal runs of [a-z0-9] and the single characters between them
Pieces(s, cur, acc) ==
    IF s = <<>> THEN (IF cur = <<>> THEN acc ELSE Append(acc, cur))
    ELSE IF IsLower(Head(s)) \/ Head(s) \in Digits
         THEN Pieces(Tail(s), Append(cur, Head(s)), acc)
         ELSE Pieces(Tail(s), <<>>,
                     Append(IF cur = <<>> THEN acc ELSE Append(acc, cur), <<Head(s)>>))
RECURSIVE DropSuffixWords(_)
DropSuffixWords(ps) ==
    IF ps = <<>> THEN <<>>
    ELSE (IF Head(ps) \in LegalSuffixes THEN <<>> ELSE Head(ps)) \o DropSuffixWords(Tail(ps))
lite(n) == JoinWith(SplitOn(DropSuffixWords(Pieces(n, <<>>, <<>>)), {" "}), <<" ">>)

\* Map.set / push: the entry of key gets the tickers of add it does not hold
\* yet appended; a new key is appended to the map.
MapPush(map, key, add, dedupe) ==
    IF \E i \in 1..Len(map) : map[i].name = key
    THEN [i \in 1..Len(map) |->
            IF map[i].name = key
            THEN [name |-> key,
                  tickers |-> map[i].tickers \o
                      SelectSeq(add, LAMBDA x : ~dedupe \/ x \notin Range(map[i].tickers))]
            ELSE map[i]]
    ELSE Append(map, [name |-> key, tickers |-> add])

RECURSIVE AddCompanies(_, _)
AddCompanies(map, cs) ==
    IF cs = <<>> THEN map
    ELSE LET n == norm(Head(cs).company)
             l == lite(n)
             m1 == MapPush(map, n, <<Head(cs).t>>, FALSE)
             m2 == IF l # <<>> /\ l # n THEN MapPush(m1, l, <<Head(cs).t>>, FALSE) ELSE m1
         IN AddCompanies(m2, Tail(cs))
RECURSIVE AddAliases(_, _)
AddAliases(map, as) ==
    IF as = <<>> THEN map
    ELSE AddAliases(MapPush(map, norm(Head(as).alias), Head(as).list, TRUE), Tail(as))

\* NAME_TO_TICKER, a Map in insertion order: <<[name, tickers], ...>>
NAME_TO_TICKER == AddAliases(AddCompanies(<<>>, SP500_COMPANIES), MANUAL_ALIASES)


(***************************************************************************)
(* tickerExtractor (part_004): fuzzyCompanyScore and extractTickersRich    *)
(***************************************************************************)
\* fuzzyCompanyScore (lines 46-55)
fuzzyCompanyScore(q, name) ==
    IF q = name THEN Int2(1)
    ELSE IF includes(name, q) THEN Rat(85, 100)
    ELSE IF includes(q, name) THEN Rat(75, 100)
    ELSE LET qa == Range(SplitOn(q, {" "}))
             na == Range(SplitOn(name, {" "}))
             hit == Cardinality(qa \cap na)
             m == IF Cardinality(qa) < Cardinality(na) THEN Cardinality(qa)
                  ELSE Cardinality(na)
             denom == IF m < 1 THEN 1 ELSE m
         IN RMul(Rat(hit, denom), Rat(7, 10))

NullTicker == <<>>     \* null (and the empty string: both are falsy)

\* for (const raw of tokens) { ... symbols.push(up) } (lines 72-79)
RECURSIVE SymbolsOf(_)
SymbolsOf(tokens) ==
    IF tokens = <<>> THEN <<>>
    ELSE LET c == core(Head(tokens))
             up == toUpperCase(c)
         IN (IF IsSymbolShape(c) /\ up \in TICKERS_SET THEN <<up>> ELSE <<>>)
            \o SymbolsOf(Tail(tokens))

\* The mention, if any, that phrase adds (lines 93-99): a direct hit scores
\* 0.9; else the first name of the map, in insertion order, that scores at
\* least 0.82.
MentionOf(phrase) ==
    IF Len(phrase) < 3 THEN <<>>
    ELSE IF \E k \in 1..Len(NAME_TO_TICKER) :
              NAME_TO_TICKER[k].name = phrase /\ NAME_TO_TICKER[k].tickers # <<>>
    THEN LET k == CHOOSE k \in 1..Len(NAME_TO_TICKER) : NAME_TO_TICKER[k].name = phrase
         IN << [name |-> phrase, tickers |-> NAME_TO_TICKER[k].tickers, score |-> Rat(9, 10)] >>
    ELSE LET Hits == {k \in 1..Len(NAME_TO_TICKER) :
                        ~RLt(fuzzyCompanyScore(phrase, NAME_TO_TICKER[k].name), Rat(82, 100))}
         IN IF Hits = {} THEN <<>>
            ELSE LET k == CHOOSE k \in Hits : \A h \in Hits : k <= h
                 IN << [name |-> phrase, tickers |-> NAME_TO_TICKER[k].tickers,
                        score |-> fuzzyCompanyScore(phrase, NAME_TO_TICKER[k].name)] >>

\* The two loops of lines 90-101: span from min(5, words.length) down to 1,
\* i from 0 while i + span <= words.length.
RECURSIVE MentionsFrom(_, _, _)
MentionsFrom(words, span, i) ==
    IF span < 1 THEN <<>>
    ELSE IF i + span > Len(words) THEN MentionsFrom(words, span - 1, 0)
    ELSE MentionOf(JoinWith(SubSeq(words, i + 1, i + span), <<" ">>))
         \o MentionsFrom(words, span, i + 1)
MaxSpan == 5
Mentions(words) ==
    MentionsFrom(words, IF Len(words) < MaxSpan THEN Len(words) ELSE MaxSpan, 0)

\* mentions.sort((a, b) => b.score - a.score)[0] is, the sort being stable, the
\* first mention of the highest score (HeadMention below).

\* A buggy stage 1: nothing is found in the text, so later stages decide.
symbolStageOff(text, preferLatest) == <<>>

\* Stage 1 (lines 71-81): the distinct known symbols of the text, in the
\* order the result lists them.
symbolStage(text, preferLatest) ==
    LET symbols == SymbolsOf(tokenize(text))
        ordered == IF preferLatest THEN symbols ELSE Reverse(symbols)
    IN Uniq(ordered)

\* Stage 2 (lines 87-104): the head of the sorted mentions, with its tickers
\* filtered to the known ones; no mention gives an empty list.
NoCompany == [list |-> <<>>, score |-> Int2(0)]
HeadMention(ms) ==
    IF ms = <<>> THEN NoCompany
    ELSE LET i == CHOOSE i \in 1..Len(ms) :
                     /\ \A j \in 1..Len(ms) : RLe(ms[j].score, ms[i].score)
                     /\ \A j \in 1..(i - 1) : RLt(ms[j].score, ms[i].score)
         IN [list |-> SelectSeq(ms[i].tickers, LAMBDA t : t \in TICKERS_SET),
             score |-> ms[i].score]
companyStage(text) == HeadMention(Mentions(SplitOn(norm(text), {" "})))

\* Stage 3 (lines 110-112): the first known ticker among the upper-cased
\* cookie ticker and client hint, the falsy ones dropped.
contextStage(lastCookieTicker, lastClientTicker) ==
    SelectSeq(SelectSeq(<<toUpperCase(lastCookieTicker), toUpperCase(lastClientTicker)>>,
                        LAMBDA t : t # <<>>),
              LAMBDA t : t \in TICKERS_SET)

\* A result that reports the raw score of the company match as confidence.
resultOfScore(uniqSymbols, top, known, lastCookieTicker, preferLatest) ==
    IF uniqSymbols # <<>>
    THEN [bestTicker |-> IF preferLatest THEN uniqSymbols[Len(uniqSymbols)]
                         ELSE uniqSymbols[1],
          allTickers |-> uniqSymbols, matchedBy |-> "symbol",
          confidence |-> Int2(1), reason |-> "Explicit ticker in text."]
    ELSE IF top.list # <<>>
    THEN [bestTicker |-> top.list[1], allTickers |-> top.list, matchedBy |-> "company",
          confidence |-> top.score,
          reason |-> "Resolved company."]
    ELSE IF known # <<>>
    THEN [bestTicker |-> known[1], allTickers |-> <<known[1]>>,
          matchedBy |-> IF toUpperCase(lastCookieTicker) = known[1] THEN "cookie"
                        ELSE "clientHint",
          confidence |-> Rat(1, 4), reason |-> "Fallback to prior context."]
    ELSE [bestTicker |-> NullTicker, allTickers |-> <<>>, matchedBy |-> "null",
          confidence |-> Int2(0), reason |-> "No ticker found."]

\* The returns of lines 82-85, 105-107, 113 and 115, given what the three
\* stages found.
resultOf(uniqSymbols, top, known, lastCookieTicker, preferLatest) ==
    IF uniqSymbols # <<>>
    THEN [bestTicker |-> IF preferLatest THEN uniqSymbols[Len(uniqSymbols)]
                         ELSE uniqSymbols[1],
          allTickers |-> uniqSymbols, matchedBy |-> "symbol",
          confidence |-> Int2(1), reason |-> "Explicit ticker in text."]
    ELSE IF top.list # <<>>
    THEN [bestTicker |-> top.list[1], allTickers |-> top.list, matchedBy |-> "company",
          confidence |-> IF ~RLt(top.score, Rat(9, 10)) THEN Rat(3, 4) ELSE Rat(1, 2),
          reason |-> "Resolved company."]
    ELSE IF known # <<>>
    THEN [bestTicker |-> known[1], allTickers |-> <<known[1]>>,
          matchedBy |-> IF toUpperCase(lastCookieTicker) = known[1] THEN "cookie"
                        ELSE "clientHint",
          confidence |-> Rat(1, 4), reason |-> "Fallback to prior context."]
    ELSE [bestTicker |-> NullTicker, allTickers |-> <<>>, matchedBy |-> "null",
          confidence |-> Int2(0), reason |-> "No ticker found."]

\* extractTickersRich (lines 65-116).  opts.preferLatest !== false is the
\* argument preferLatest.
extractTickersRich(text, lastCookieTicker, lastClientTicker, preferLatest) ==
    resultOf(symbolStage(text, preferLatest), companyStage(text),
             contextStage(lastCookieTicker, lastClientTicker),
             lastCookieTicker, preferLatest)

\* ---- inputs of the extractor model ----
MaxTokens == 3
Vocabulary == { <<"T","S","L","A">>, <<"$","A","A","P","L",".">>, <<"A","m","a","z","o","n">>, <<"t","e","s","l","a">>, <<"B","U","Y">> }
CookieTickers == { <<>>, <<"m","s","f","t">>, <<"z","z","z">> }
ClientTickers == { <<>>, <<"Q","Q","Q">>, <<"z","z","z">> }
Texts == {JoinWith(ws, <<" ">>) : ws \in SeqsOf(Vocabulary, 0, MaxTokens)}

RInit == rx = [called |-> FALSE]

\* One call of extractTickersRich; the function keeps no state between calls.
ExtractTickersRich ==
    /\ ~rx.called
    /\ \E text \in Texts, cookie \in CookieTickers, client \in ClientTickers,
          preferLatest \in BOOLEAN :
         rx' = [called |-> TRUE, text |-> text, cookie |-> cookie, client |-> client,
                preferLatest |-> preferLatest,
                res |-> extractTickersRich(text, cookie, client, preferLatest)]
    /\ UNCHANGED <<pvars, svars, xvars>>

PIdle ==
    /\ ENV = [PRICES_PROVIDER |-> <<>>, POLYGON_KEY |-> FALSE, IEX_KEY |-> FALSE,
              FINNHUB_KEY |-> FALSE, AV_KEY |-> FALSE]
    /\ pc = "idle" /\ tickers = <<>> /\ prices = NoMap /\ errors = NoMap
    /\ chain = <<>> /\ idx = 1 /\ log = <<>> /\ health = NoHealth

\* The caller has taken the result.
ExtractReturn ==
    /\ rx.called
    /\ rx' = [called |-> FALSE]
    /\ UNCHANGED <<pvars, svars, xvars>>

InitResolve == PIdle /\ RInit /\ SIdle /\ XIdle
RNext == ExtractTickersRich \/ ExtractReturn
SpecResolve == InitResolve /\ [][RNext]_vars


(***************************************************************************)
(* Claims about extractTickersRich                                         *)
(***************************************************************************)
\* What the text and the options of the last call hold, stage by stage.
TextSymbols == SymbolsOf(tokenize(rx.text))
TextCompanies == HeadMention(Mentions(SplitOn(norm(rx.text), {" "}))).list
CookieKnown == toUpperCase(rx.cookie) \in TICKERS_SET
ClientKnown == toUpperCase(rx.client) \in TICKERS_SET

StagePriority(r, syms, comps, ck, cl) ==
    /\ syms # <<>> =>
         /\ r.matchedBy = "symbol" /\ r.confidence = Int2(1)
         /\ r.bestTicker \in Range(syms)
    /\ (syms = <<>> /\ comps # <<>>) =>
         /\ r.matchedBy = "company"
         /\ r.bestTicker = comps[1]
    /\ (syms = <<>> /\ comps = <<>> /\ ck) =>
         /\ r.matchedBy = "cookie" /\ r.confidence = Rat(1, 4)
         /\ r.bestTicker = toUpperCase(rx.cookie)
    /\ (syms = <<>> /\ comps = <<>> /\ ~ck /\ cl) =>
         /\ r.matchedBy = "clientHint" /\ r.confidence = Rat(1, 4)
         /\ r.bestTicker = toUpperCase(rx.client)
    /\ (syms = <<>> /\ comps = <<>> /\ ~ck /\ ~cl) =>
         /\ r.bestTicker = NullTicker /\ r.matchedBy = "null"
         /\ r.confidence = Int2(0) /\ r.allTickers = <<>>

\* C1: extractTickersRich returns the result of the first stage that
\* succeeds: (1) a known upper-case ticker token gives "symbol", confidence 1,
\* whatever company names and cookie/client tickers are present; (2) else a
\* company-name match gives "company"; (3) else a known cookie ticker gives
\* "cookie", confidence 0.25, and only when the cookie ticker is absent or
\* unknown a known client hint gives "clientHint", confidence 0.25;
\* (4) else bestTicker is null.
C1_StagePriority ==
    rx.called => StagePriority(rx.res, TextSymbols, TextCompanies, CookieKnown, ClientKnown)

\* C1 witness: the text names Amazon and then the ticker TSLA, a known cookie
\* ticker and a known client hint are supplied, and the call answered TSLA
\* by symbol.
C1_Witness ==
    /\ rx.called
    /\ rx.text = <<"A","m","a","z","o","n"," ","T","S","L","A">>
    /\ CookieKnown /\ ClientKnown
    /\ TextCompanies # <<>>
    /\ rx.res.bestTicker = <<"T","S","L","A">>
    /\ rx.res.matchedBy = "symbol"

\* C2: with preferLatest not false, bestTicker is the known ticker whose
\* occurrence is last in the text, also when that ticker occurs earlier too.
C2_LastOccurrence ==
    (rx.called /\ rx.preferLatest /\ TextSymbols # <<>>) =>
        rx.res.bestTicker = TextSymbols[Len(TextSymbols)]

\* C19: with preferLatest false and two or more distinct known tickers in the
\* text, bestTicker is the known ticker that occurs first, and allTickers
\* lists every distinct known ticker of the text.
C19_FirstOccurrence ==
    (rx.called /\ ~rx.preferLatest /\ Cardinality(Range(TextSymbols)) >= 2) =>
        /\ rx.res.bestTicker = TextSymbols[1]
        /\ Range(rx.res.allTickers) = Range(TextSymbols)

\* C20: the confidence of a result is one of 0, 0.25, 0.5, 0.75, 1 and goes
\* with the way the match was found: "symbol" with 1; "company" with 0.75 or
\* 0.5, 0.75 only when a span of the normalized text is a name of the table;
\* "cookie" and "clientHint" with 0.25; null with 0, a null bestTicker and
\* no tickers.  A bestTicker that is not null is listed in allTickers and is
\* a known ticker.
ExactNameInText ==
    LET words == SplitOn(norm(rx.text), {" "})
    IN \E i \in 1..Len(words), j \in 1..Len(words) :
          /\ i <= j /\ j - i < 5
          /\ Len(JoinWith(SubSeq(words, i, j), <<" ">>)) >= 3
          /\ \E k \in 1..Len(NAME_TO_TICKER) :
                NAME_TO_TICKER[k].name = JoinWith(SubSeq(words, i, j), <<" ">>)
C20_ConfidenceByMatch ==
    rx.called =>
        LET r == rx.res
        IN /\ r.confidence \in {Int2(0), Rat(1, 4), Rat(1, 2), Rat(3, 4), Int2(1)}
           /\ r.matchedBy \in {"symbol", "company", "cookie", "clientHint", "null"}
           /\ (r.matchedBy = "symbol") <=> (r.confidence = Int2(1))
           /\ (r.matchedBy = "company") <=> (r.confidence \in {Rat(3, 4), Rat(1, 2)})
           /\ (r.confidence = Rat(3, 4)) => ExactNameInText
           /\ (r.matchedBy \in {"cookie", "clientHint"}) <=> (r.confidence = Rat(1, 4))
           /\ (r.matchedBy = "null") <=> (r.confidence = Int2(0))
           /\ (r.matchedBy = "null") <=> (r.bestTicker = NullTicker)
           /\ (r.matchedBy = "null") <=> (r.allTickers = <<>>)
           /\ (r.bestTicker # NullTicker) =>
                 /\ r.bestTicker \in Range(r.allTickers)
                 /\ r.bestTicker \in TICKERS_SET

\* A text without ticker token whose company name is matched by containment
\* only was answered with confidence 0.5.
C20_Witness ==
    /\ rx.called
    /\ rx.res.matchedBy = "company"
    /\ rx.res.confidence = Rat(1, 2)
    /\ ~ExactNameInText
    /\ rx.res.bestTicker \in Range(rx.res.allTickers)


(***************************************************************************)
(* ragRetriever (src/unnamed/part_000): numeric utilities                  *)
(***************************************************************************)
TTL_QUOTE == 60 * 1000
TTL_METRIC == 6 * 60 * 60 * 1000
TTL_CANDLE == 2 * 60 * 60 * 1000
TTL_DATASET == 10 * 60 * 1000

\* norm of ragRetriever (line 82): (t || "").trim().toUpperCase()
normT(t) == toUpperCase(trim(t))

\* num: the value when it is a finite number, else undefined.
num(v) == IF v.def THEN v ELSE Undefined

\* xs.filter(Number.isFinite)
FilterFinite(xs) == SelectSeq(xs, LAMBDA x : x.def)

\* A normalization that turns every series round.
toAscendingAlways(closes) == Reverse(closes)

toAscending(closes) ==
    IF Len(closes) >= 2 /\ RLt(closes[Len(closes)], closes[1])
    THEN Reverse(closes)
    ELSE closes

\* values.reduce((a, b) => a + b, 0) over values[lo..hi]; the sums are exact,
\* so they are taken pairwise.
RECURSIVE SumOf(_, _, _)
SumOf(values, lo, hi) ==
    IF lo > hi THEN Int2(0)
    ELSE IF lo = hi THEN values[lo]
    ELSE RAdd(SumOf(values, lo, (lo + hi) \div 2),
              SumOf(values, ((lo + hi) \div 2) + 1, hi))

\* values.slice(-k), for 0 < k
LastK(values, k) ==
    IF Len(values) <= k THEN values ELSE SubSeq(values, Len(values) - k + 1, Len(values))

\* The mean of the whole series instead of its last n values.
smaWhole(values, n) ==
    IF Len(values) < n THEN Undefined
    ELSE RDiv(SumOf(values, 1, Len(values)), Int2(Len(values)))

sma(values, n) ==
    IF Len(values) < n THEN Undefined
    ELSE RDiv(SumOf(LastK(values, n), 1, n), Int2(n))

\* The loop of rsiFromCloses: <<gains, losses>> over closes[i..].
RECURSIVE GainsLosses(_, _, _, _)
GainsLosses(closes, i, gains, losses) ==
    IF i > Len(closes) THEN <<gains, losses>>
    ELSE LET diff == RSub(closes[i], closes[i - 1])
         IN IF RLt(Int2(0), diff)
            THEN GainsLosses(closes, i + 1, RAdd(gains, diff), losses)
            ELSE GainsLosses(closes, i + 1, gains, RSub(losses, diff))

rsiFromCloses(values, n) ==
    IF Len(values) <= n THEN Undefined
    ELSE LET gl == GainsLosses(LastK(values, n + 1), 2, Int2(0), Int2(0))
             avgGain == RDiv(gl[1], Int2(n))
             avgLoss == RDiv(gl[2], Int2(n))
         IN IF IsZero(avgLoss) THEN Int2(100)
            ELSE RSub(Int2(100),
                      RDiv(Int2(100), RAdd(Int2(1), RDiv(avgGain, avgLoss))))

momentumPct(values, lookback) ==
    IF Len(values) < lookback + 1 THEN Undefined
    ELSE LET a == values[Len(values) - lookback]
             b == values[Len(values)]
         IN IF ~a.def \/ ~b.def \/ IsZero(a) THEN Undefined
            ELSE RMul(RSub(RDiv(b, a), Int2(1)), Int2(100))

\* A trend that lets the MA deviation speak first.
trendFromMA50(mom, pctVsMA50) ==
    IF pctVsMA50.def /\ RLt(Rat(1, 2), pctVsMA50) THEN "up"
    ELSE IF pctVsMA50.def /\ RLt(pctVsMA50, Rat(-1, 2)) THEN "down"
    ELSE IF mom.def /\ RLt(Rat(1, 2), mom) THEN "up"
    ELSE IF mom.def /\ RLt(mom, Rat(-1, 2)) THEN "down"
    ELSE "flat"

trendFromMomentum(mom, pctVsMA50) ==
    IF mom.def /\ RLt(Rat(1, 2), mom) THEN "up"
    ELSE IF mom.def /\ RLt(mom, Rat(-1, 2)) THEN "down"
    ELSE IF pctVsMA50.def /\ RLt(Rat(1, 2), pctVsMA50) THEN "up"
    ELSE IF pctVsMA50.def /\ RLt(pctVsMA50, Rat(-1, 2)) THEN "down"
    ELSE "flat"

(***************************************************************************)
(* The local dataset.  A raw row carries every field of IndicatorRowRaw;   *)
(* an absent field is Undefined, an absent array is empty; historical is   *)
(* either numbers or {close} objects (histOf tells which).                 *)
(***************************************************************************)
RawRow(ticker) ==
    [ticker |-> ticker, price |-> Undefined, close |-> Undefined,
     high52 |-> Undefined, rsi |-> Undefined, ma50 |-> Undefined,
     ma_50 |-> Undefined, pctVsMA50 |-> Undefined, pct_vs_ma50 |-> Undefined,
     histOf |-> "numbers", historical |-> <<>>, ohlc |-> <<>>]

\* The historical array of a raw row as numbers (lines 148-163).
histArr(raw) ==
    IF Len(raw.historical) > 0
    THEN IF raw.histOf = "numbers"
         THEN toAscending(FilterFinite(raw.historical))
         ELSE toAscending(FilterFinite([i \in 1..Len(raw.historical) |->
                                            raw.historical[i].close]))
    ELSE IF Len(raw.ohlc) > 0
         THEN toAscending(FilterFinite(raw.ohlc))
         ELSE <<>>

normalizeRow(raw) ==
    [isNull |-> FALSE,
     ticker |-> normT(raw.ticker),
     price |-> num(Coalesce(raw.price, raw.close)),
     high52 |-> num(raw.high52),
     rsi |-> num(raw.rsi),
     ma50 |-> num(Coalesce(raw.ma50, raw.ma_50)),
     pctVsMA50 |-> num(Coalesce(raw.pctVsMA50, raw.pct_vs_ma50)),
     historical |-> histArr(raw)]

\* null where an IndicatorRow is expected: row?.field is undefined.
NoRow ==
    [isNull |-> TRUE, ticker |-> <<>>, price |-> Undefined, high52 |-> Undefined,
     rsi |-> Undefined, ma50 |-> Undefined, pctVsMA50 |-> Undefined,
     historical |-> <<>>]


(***************************************************************************)
(* HTTP answers.  An answer is [kind, json]: the fetch rejects             *)
(* ("network_error"), answers with a non-2xx status ("non_2xx"), answers   *)
(* 2xx with a body that is not JSON ("malformed"), answers 2xx with        *)
(* {s: "no_data"} ("no_data"), or answers 2xx with the endpoint's JSON     *)
(* ("success").  A JSON value carries the fields the code reads: s, c      *)
(* (quote), metric52 (metric["52WeekHigh"]), cs (candle c[]), and, for     *)
(* the public file, isArray and rows.                                      *)
(***************************************************************************)
OutcomeKinds == {"success", "network_error", "non_2xx", "malformed", "no_data"}

EmptyJson ==
    [s |-> "", c |-> Undefined, metric52 |-> Undefined, cs |-> <<>>,
     isArray |-> FALSE, rows |-> <<>>]
NoDataJson == [EmptyJson EXCEPT !.s = "no_data"]

Response(kind, payload) ==
    [kind |-> kind, json |-> IF kind = "no_data" THEN NoDataJson ELSE payload]

\* What a call of an async function gives its caller: an exception (threw),
\* null (isNull) or a value; http counts the requests it sent.
Threw(http) == [threw |-> TRUE, isNull |-> TRUE, json |-> EmptyJson, http |-> http]
Null(http) == [threw |-> FALSE, isNull |-> TRUE, json |-> EmptyJson, http |-> http]
Value(json, http) == [threw |-> FALSE, isNull |-> FALSE, json |-> json, http |-> http]

\* finnhubGet without its catch clause (lines 250-259): fetch rejects on a
\* network error, res.json() rejects on a malformed body.
finnhubTry(key, resp) ==
    IF ~key THEN Null(0)
    ELSE IF resp.kind = "network_error" THEN Threw(1)
    ELSE IF resp.kind = "non_2xx" THEN Null(1)
    ELSE IF resp.kind = "malformed" THEN Threw(1)
    ELSE IF resp.json.s = "no_data" THEN Null(1)
    ELSE Value(resp.json, 1)

\* finnhubGet with the catch clause left out.
finnhubGetUncaught(key, resp) == finnhubTry(key, resp)

finnhubGet(key, resp) ==
    LET r == finnhubTry(key, resp)
    IN IF r.threw THEN Null(r.http) ELSE r

(***************************************************************************)
(* The four caches: key -> [t, data].  Each lookup below is the whole      *)
(* function: it reads the cache and the clock of the current state and     *)
(* gives [ret, cache, hit, http, threw]: the value returned, the cache     *)
(* afterwards, whether the cached entry was served, the number of HTTP     *)
(* requests sent, and whether an exception left the function.              *)
(***************************************************************************)
\* An entry still served at the instant it reaches its TTL.
FreshThrough(entryT, now, ttl) == now - entryT <= ttl

\* now() - hit.t < TTL
Fresh(entryT, now, ttl) == now - entryT < ttl

Served(cache, k, ttl) == k \in DOMAIN cache /\ Fresh(cache[k].t, clock, ttl)

\* cache.set(k, {t: now(), data})
CacheSet(cache, k, data) ==
    [x \in (DOMAIN cache) \cup {k} |->
        IF x = k THEN [t |-> clock, data |-> data] ELSE cache[x]]

Outcome(ret, cache, hit, http, threw) ==
    [ret |-> ret, cache |-> cache, hit |-> hit, http |-> http, threw |-> threw]

NoPrice == [price |-> Undefined]
\* A getLiveQuote that stores a price only.
quoteFetchedPriceOnly(t, resp) ==
    LET q == finnhubGet(FINNHUB_KEY, resp)
        data == IF ~q.isNull /\ q.json.c.def /\ ~IsZero(q.json.c)
                THEN [price |-> q.json.c]
                ELSE NoPrice
    IN IF q.threw THEN Outcome(NoPrice, quoteCache, FALSE, q.http, TRUE)
       ELSE IF data = NoPrice THEN Outcome(data, quoteCache, FALSE, q.http, FALSE)
       ELSE Outcome(data, CacheSet(quoteCache, t, data), FALSE, q.http, FALSE)

\* getLiveQuote from its await on (lines 271-275): the cache and the clock
\* are those of the instant at which finnhubGet has answered.
quoteFetched(t, resp) ==
    LET q == finnhubGet(FINNHUB_KEY, resp)
        data == IF ~q.isNull /\ q.json.c.def /\ ~IsZero(q.json.c)
                THEN [price |-> q.json.c]
                ELSE NoPrice
    IN IF q.threw THEN Outcome(NoPrice, quoteCache, FALSE, q.http, TRUE)
       ELSE Outcome(data, CacheSet(quoteCache, t, data), FALSE, q.http, FALSE)

getLiveQuote(ticker, resp) ==
    LET t == normT(ticker)
    IN IF Served(quoteCache, t, TTL_QUOTE)
       THEN Outcome(quoteCache[t].data, quoteCache, TRUE, 0, FALSE)
       ELSE quoteFetched(t, resp)

NoHigh == [high52 |-> Undefined]
\* getLiveMetrics from its await on (lines 284-291).
metricFetched(t, resp) ==
    LET m == finnhubGet(FINNHUB_KEY, resp)
        data == IF ~m.isNull /\ m.json.metric52.def
                THEN [high52 |-> m.json.metric52]
                ELSE NoHigh
    IN IF m.threw THEN Outcome(NoHigh, metricCache, FALSE, m.http, TRUE)
       ELSE Outcome(data, CacheSet(metricCache, t, data), FALSE, m.http, FALSE)

getLiveMetrics(ticker, resp) ==
    LET t == normT(ticker)
    IN IF Served(metricCache, t, TTL_METRIC)
       THEN Outcome(metricCache[t].data, metricCache, TRUE, 0, FALSE)
       ELSE metricFetched(t, resp)

\* number[] | null
NoCloses == [isNull |-> TRUE, data |-> <<>>]
Closes(xs) == [isNull |-> FALSE, data |-> xs]
YearBars == 252

\* A getLiveCloses that stores the outcome of a failed fetch as well.
closesFetchedAlwaysStored(t, resp) ==
    LET c == finnhubGet(FINNHUB_KEY, resp)
        last252 == LastK(FilterFinite(c.json.cs), YearBars)
    IN IF c.threw THEN Outcome(NoCloses, candleCache, FALSE, c.http, TRUE)
       ELSE IF c.isNull \/ Len(c.json.cs) = 0
            THEN Outcome(NoCloses, CacheSet(candleCache, t, <<>>), FALSE, c.http, FALSE)
            ELSE Outcome(Closes(last252), CacheSet(candleCache, t, last252),
                         FALSE, c.http, FALSE)

\* getLiveCloses from its await on (lines 302-309).
closesFetched(t, resp) ==
    LET c == finnhubGet(FINNHUB_KEY, resp)
        last252 == LastK(FilterFinite(c.json.cs), YearBars)
    IN IF c.threw THEN Outcome(NoCloses, candleCache, FALSE, c.http, TRUE)
       ELSE IF c.isNull \/ Len(c.json.cs) = 0
            THEN Outcome(NoCloses, candleCache, FALSE, c.http, FALSE)
            ELSE Outcome(Closes(last252), CacheSet(candleCache, t, last252),
                         FALSE, c.http, FALSE)

getLiveCloses(ticker, resp) ==
    LET t == normT(ticker)
    IN IF Served(candleCache, t, TTL_CANDLE)
       THEN Outcome(Closes(candleCache[t].data), candleCache, TRUE, 0, FALSE)
       ELSE closesFetched(t, resp)

\* IndicatorRow[] | null
NoRows == [isNull |-> TRUE, rows |-> <<>>]
Rows(rs) == [isNull |-> FALSE, rows |-> rs]

\* The bundled module exports only loadIndicatorsFor
\* (src/src/data/sp500_indicators.ts), so the bulk load gives null.
loadDatasetModule == NoRows

PUBLIC_JSON == "public_json"
loadDatasetJson(resp) ==
    IF Served(datasetCache, PUBLIC_JSON, TTL_DATASET)
    THEN Outcome(Rows(datasetCache[PUBLIC_JSON].data), datasetCache, TRUE, 0, FALSE)
    ELSE IF resp.kind \in {"network_error", "malformed"}
         THEN Outcome(NoRows, datasetCache, FALSE, 1, FALSE)     \* caught
         ELSE IF resp.kind = "non_2xx"
              THEN Outcome(NoRows, datasetCache, FALSE, 1, FALSE)
              ELSE LET rows == IF resp.json.isArray
                               THEN [i \in 1..Len(resp.json.rows) |->
                                        normalizeRow(resp.json.rows[i])]
                               ELSE <<>>
                   IN Outcome(Rows(rows), CacheSet(datasetCache, PUBLIC_JSON, rows),
                              FALSE, 1, FALSE)

\* rows.find((r) => r.ticker === T), null when there is none
FindRow(rows, T) ==
    IF \E i \in 1..Len(rows) : rows[i].ticker = T
    THEN rows[CHOOSE i \in 1..Len(rows) :
                 /\ rows[i].ticker = T
                 /\ \A j \in 1..(i - 1) : rows[j].ticker # T]
    ELSE NoRow

loadRow(ticker, resp) ==
    LET T == normT(ticker)
        modRows == loadDatasetModule
    IN IF ~modRows.isNull /\ Len(modRows.rows) > 0
          /\ ~FindRow(modRows.rows, T).isNull
       THEN Outcome(FindRow(modRows.rows, T), datasetCache, FALSE, 0, FALSE)
       ELSE LET j == loadDatasetJson(resp)
            IN Outcome(IF j.ret.isNull THEN NoRow ELSE FindRow(j.ret.rows, T),
                       j.cache, j.hit, j.http, j.threw)


(***************************************************************************)
(* getQuickStats after its awaits (lines 329-361) and retrievePriceFeatures*)
(***************************************************************************)
\* The row's historical array first, the live closes only without it.
closesOfLocalFirst(row, liveCloses) ==
    IF Len(row.historical) > 0 THEN row.historical
    ELSE IF liveCloses.isNull THEN <<>> ELSE liveCloses.data

\* The working set of closes: the live ones when there are any, else the
\* row's historical array (lines 330-332).
closesOf(row, liveCloses) ==
    IF ~liveCloses.isNull /\ Len(liveCloses.data) > 0
    THEN liveCloses.data
    ELSE row.historical

MA_WINDOW == 50
RSI_MIN_POINTS == 15
RSI_PERIOD == 14
MOM_LOOKBACK == 15

\* The row's stored value first, the recomputed one only without it.
pctOfStored(price, derivedMA50, row) ==
    IF row.pctVsMA50.def THEN row.pctVsMA50
    ELSE IF price.def /\ derivedMA50.def /\ ~IsZero(derivedMA50)
         THEN RMul(RSub(RDiv(price, derivedMA50), Int2(1)), Int2(100))
         ELSE Undefined

\* (price / ma50 - 1) * 100 when both are numbers and ma50 is not 0,
\* else the row's stored value (lines 343-348).
pctOf(price, derivedMA50, row) ==
    IF price.def /\ derivedMA50.def /\ ~IsZero(derivedMA50)
    THEN RMul(RSub(RDiv(price, derivedMA50), Int2(1)), Int2(100))
    ELSE num(row.pctVsMA50)

statsOf(closes, price, high52, derivedRSI, derivedMA50, pctVsMA50) ==
    [price |-> num(price),
     high52 |-> num(high52),
     rsi |-> num(derivedRSI),
     ma50 |-> num(derivedMA50),
     pctVsMA50 |-> num(pctVsMA50),
     maTrend |-> trendFromMomentum(momentumPct(closes, MOM_LOOKBACK), pctVsMA50)]

quickStats(row, liveQ, liveM, liveCloses) ==
    LET closes == closesOf(row, liveCloses)
        derivedMA50 == Coalesce(row.ma50,
                                IF Len(closes) >= MA_WINDOW
                                THEN sma(closes, MA_WINDOW) ELSE Undefined)
        derivedRSI == Coalesce(row.rsi,
                               IF Len(closes) >= RSI_MIN_POINTS
                               THEN rsiFromCloses(closes, RSI_PERIOD) ELSE Undefined)
        \* the normalized row has no "close" field: the third operand of the
        \* ?? chain of line 339 is always undefined
        price == Coalesce(num(liveQ.price), Coalesce(num(row.price), Undefined))
        high52 == Coalesce(num(liveM.high52), num(row.high52))
    IN statsOf(closes, price, high52, derivedRSI, derivedMA50,
               pctOf(price, derivedMA50, row))

\* The decimal digits of a natural number.
RECURSIVE NatChars(_)
NatChars(k) ==
    LET d == <<"0","1","2","3","4","5","6","7","8","9">>[(k % 10) + 1]
    IN IF k < 10 THEN <<d>> ELSE Append(NatChars(k \div 10), d)

\* to2: n.toFixed(2) of a finite number, undefined otherwise (the empty
\* sequence stands for undefined; it is falsy like undefined).  The value is
\* rounded to the nearest hundredth, halves away from zero.
to2(x) ==
    IF ~x.def THEN <<>>
    ELSE LET cents == (2 * Abs(x.n) * 100 + x.d) \div (2 * x.d)
             frac == cents % 100
         IN (IF x.n < 0 THEN <<"-">> ELSE <<>>)
            \o NatChars(cents \div 100) \o <<".">>
            \o (IF frac < 10 THEN <<"0">> ELSE <<>>) \o NatChars(frac)

NO_FEATURES == <<"N","o"," ","t","e","c","h","n","i","c","a","l"," ","f","e","a","t","u","r","e","s"," ","a","v","a","i","l","a","b","l","e",".">>

TrendChars(tr) ==
    IF tr = "up" THEN <<"u","p">> ELSE IF tr = "down" THEN <<"d","o","w","n">>
    ELSE IF tr = "flat" THEN <<"f","l","a","t">> ELSE <<>>

\* parts.push(label + text) when text is truthy
PushPart(parts, label, text) ==
    IF text = <<>> THEN parts ELSE Append(parts, label \o text)

featureParts(st) ==
    PushPart(PushPart(PushPart(PushPart(PushPart(PushPart(<<>>,
        <<"p","r","i","c","e"," ">>, to2(st.price)),
        <<"5","2","w","H","i","g","h"," ">>, to2(st.high52)),
        <<"R","S","I"," ">>, to2(st.rsi)),
        <<"M","A","5","0"," ">>, to2(st.ma50)),
        <<"%","v","s","M","A","5","0"," ">>, to2(st.pctVsMA50)),
        <<"t","r","e","n","d"," ">>, TrendChars(st.maTrend))

\* retrievePriceFeatures after its await (lines 368-380).
featuresLine(st) ==
    IF featureParts(st) = <<>> THEN NO_FEATURES
    ELSE JoinWith(featureParts(st), <<","," ">>)


(***************************************************************************)
(* The environment: what the three Finnhub endpoints and the public JSON   *)
(* file hold for AAPL.                                                     *)
(***************************************************************************)
Nums(xs) == [i \in 1..Len(xs) |-> Int2(xs[i])]
Ramp(a, b) == [i \in 1..(b - a + 1) |-> Int2(a + i - 1)]
Down(a, b) == [i \in 1..(a - b + 1) |-> Int2(a - i + 1)]

QuoteJson(c) == [EmptyJson EXCEPT !.c = c]
MetricJson(h) == [EmptyJson EXCEPT !.metric52 = h]
CandleJson(cs) == [EmptyJson EXCEPT !.s = "ok", !.cs = cs]
DatasetJson(rows) == [EmptyJson EXCEPT !.isArray = TRUE, !.rows = rows]

\* Every field set, ticker in lower case with blanks, short descending
\* history, no rsi.
RowFull ==
    [RawRow(<<" ","a","a","p","l">>) EXCEPT !.price = Int2(140), !.high52 = Int2(180),
        !.ma50 = Int2(120), !.pctVsMA50 = Int2(5),
        !.historical = Nums(<<3, 2, 1>>)]
\* The legacy names close and pct_vs_ma50, no ma50 and no rsi, and 51
\* ascending {close} points 100..150.
RowHistory ==
    [RawRow(<<"A","A","P","L">>) EXCEPT !.close = Int2(150), !.pct_vs_ma50 = Int2(3),
        !.histOf = "objects",
        !.historical = [i \in 1..51 |-> [close |-> Int2(99 + i)]]]
\* ma_50 is 0, rsi is stored, closes come in ohlc.close, newest first.
RowZeroMA ==
    [RawRow(<<"a","a","p","l">>) EXCEPT !.price = Int2(10), !.ma_50 = Int2(0),
        !.rsi = Int2(55), !.pctVsMA50 = Int2(-2),
        !.ohlc = Nums(<<30, 28, 29, 27, 28, 26, 27, 25, 26, 24, 25, 23, 24, 22, 23, 21>>)]
RowOther == [RawRow(<<"M","S","F","T">>) EXCEPT !.price = Int2(300), !.ma50 = Int2(290)]

\* 20 closes in a zigzag, with one entry that is not a number.
ZigZag ==
    Nums(<<10, 12, 11, 13, 12, 14, 13, 15, 14, 16>>) \o <<Undefined>>
    \o Nums(<<15, 17, 16, 18, 17, 19, 18, 20, 19, 21>>)

Upstreams ==
    { [key |-> TRUE, quote |-> QuoteJson(Int2(150)), metric |-> MetricJson(Int2(200)),
       candle |-> CandleJson(Ramp(101, 151)), dataset |-> DatasetJson(<<RowFull>>)],
      [key |-> TRUE, quote |-> QuoteJson(Int2(0)), metric |-> MetricJson(Undefined),
       candle |-> CandleJson(ZigZag), dataset |-> DatasetJson(<<RowOther, RowHistory>>)],
      [key |-> FALSE, quote |-> QuoteJson(Int2(150)), metric |-> MetricJson(Int2(200)),
       candle |-> CandleJson(Ramp(101, 151)), dataset |-> DatasetJson(<<RowZeroMA>>)],
      [key |-> TRUE, quote |-> QuoteJson(Rat(301, 2)), metric |-> MetricJson(Int2(200)),
       candle |-> CandleJson(Down(60, 10)), dataset |-> DatasetJson(<<RowOther>>)] }

\* For the lookups on their own the values matter little: short series, with
\* and without the Finnhub key.
CacheUpstreams ==
    { [key |-> k, quote |-> QuoteJson(Int2(150)), metric |-> MetricJson(Int2(200)),
       candle |-> CandleJson(Nums(<<10, 12, 11>>)),
       dataset |-> DatasetJson(<<RowOther>>)] : k \in BOOLEAN }

StatTickers == { <<" ","a","a","p","l"," ">>, <<"A","A","P","L">> }

MaxCalls == 2

NoStats ==
    [price |-> Undefined, high52 |-> Undefined, rsi |-> Undefined,
     ma50 |-> Undefined, pctVsMA50 |-> Undefined, maTrend |-> "undefined"]
NoKinds ==
    [dataset |-> "pending", quote |-> "pending", metric |-> "pending",
     candle |-> "pending"]
\* issued holds the loads the call has started: loadRow at line 320, the
\* three live loads together when the Promise.all of line 323 is reached.
Frame(ticker, via) ==
    [pc |-> "row", via |-> via, ticker |-> ticker, t |-> normT(ticker),
     kinds |-> NoKinds, issued |-> {"dataset"}, row |-> NoRow, liveQ |-> NoPrice, liveM |-> NoHigh,
     liveCloses |-> NoCloses, threw |-> FALSE, res |-> NoStats, line |-> <<>>]

SInit ==
    /\ upstream \in Upstreams
    /\ FINNHUB_KEY = upstream.key
    /\ clock = 0 /\ ticks = 0 /\ calls = 0
    /\ quoteCache = NoMap /\ metricCache = NoMap /\ candleCache = NoMap
    /\ datasetCache = NoMap
    /\ last = [op |-> "none"]
    /\ qs = [pc |-> "idle"]

\* getQuickStats(ticker), up to its first await (lines 316-320).
GetQuickStats ==
    /\ qs.pc = "idle" /\ calls < MaxCalls
    /\ \E ticker \in StatTickers : qs' = Frame(ticker, "getQuickStats")
    /\ calls' = calls + 1
    /\ UNCHANGED <<pvars, rvars, xvars, clock, ticks, FINNHUB_KEY, upstream, quoteCache,
                   metricCache, candleCache, datasetCache, last>>

\* retrievePriceFeatures(ticker), up to its await of getQuickStats (line 366).
RetrievePriceFeatures ==
    /\ qs.pc = "idle" /\ calls < MaxCalls
    /\ \E ticker \in StatTickers : qs' = Frame(ticker, "retrievePriceFeatures")
    /\ calls' = calls + 1
    /\ UNCHANGED <<pvars, rvars, xvars, clock, ticks, FINNHUB_KEY, upstream, quoteCache,
                   metricCache, candleCache, datasetCache, last>>

\* The frame after an awaited load: an exception rejects the call.  kinds
\* notes how the source answered: from the cache, without a request (no key)
\* or with the outcome of the request.
Awaited(r, next, source, kind) ==
    [qs EXCEPT !.pc = IF r.threw THEN "done" ELSE next,
               !.threw = r.threw,
               !.issued = IF source = "dataset" /\ ~r.threw
                          THEN {"dataset", "quote", "metric", "candle"} ELSE @,
               !.kinds[source] = IF r.hit THEN "cached"
                                 ELSE IF r.http = 0 THEN "unsent" ELSE kind]

\* The applications of normalizeRow in a loadRow call: one per row of the
\* body when loadDatasetJson gets an array (line 217), none on a hit, a
\* failure or another body; the module path gives no rows.
Normalizations(resp, r) ==
    IF r.hit \/ r.http = 0 THEN 0
    ELSE IF resp.kind \in {"success", "no_data"} /\ resp.json.isArray
         THEN Len(resp.json.rows) ELSE 0

\* const row = await loadRow(t)  (line 320)
AwaitLoadRow ==
    /\ qs.pc = "row"
    /\ \E kind \in OutcomeKinds :
         LET resp == Response(kind, upstream.dataset)
             r == loadRow(qs.t, resp)
         IN /\ datasetCache' = r.cache
            /\ qs' = [Awaited(r, "quote", "dataset", kind) EXCEPT !.row = r.ret]
            /\ loads' = [reads |-> loads.reads + r.http,
                         normalized |-> loads.normalized + Normalizations(resp, r)]
    /\ UNCHANGED <<notLoads, clock, ticks, calls, FINNHUB_KEY, upstream,
                   quoteCache, metricCache, candleCache, last>>

\* getLiveQuote(t) of the Promise.all (line 324)
AwaitLiveQuote ==
    /\ qs.pc = "quote"
    /\ \E kind \in OutcomeKinds :
         LET r == getLiveQuote(qs.t, Response(kind, upstream.quote))
         IN /\ quoteCache' = r.cache
            /\ qs' = [Awaited(r, "metric", "quote", kind) EXCEPT !.liveQ = r.ret]
    /\ UNCHANGED <<pvars, rvars, xvars, clock, ticks, calls, FINNHUB_KEY, upstream,
                   metricCache, candleCache, datasetCache, last>>

\* getLiveMetrics(t) of the Promise.all (line 325)
AwaitLiveMetrics ==
    /\ qs.pc = "metric"
    /\ \E kind \in OutcomeKinds :
         LET r == getLiveMetrics(qs.t, Response(kind, upstream.metric))
         IN /\ metricCache' = r.cache
            /\ qs' = [Awaited(r, "candle", "metric", kind) EXCEPT !.liveM = r.ret]
    /\ UNCHANGED <<pvars, rvars, xvars, clock, ticks, calls, FINNHUB_KEY, upstream,
                   quoteCache, candleCache, datasetCache, last>>

\* getLiveCloses(t) of the Promise.all (line 326)
AwaitLiveCloses ==
    /\ qs.pc = "candle"
    /\ \E kind \in OutcomeKinds :
         LET r == getLiveCloses(qs.t, Response(kind, upstream.candle))
         IN /\ candleCache' = r.cache
            /\ qs' = [Awaited(r, "derive", "candle", kind) EXCEPT !.liveCloses = r.ret]
    /\ UNCHANGED <<pvars, rvars, xvars, clock, ticks, calls, FINNHUB_KEY, upstream,
                   quoteCache, metricCache, datasetCache, last>>

\* The rest of getQuickStats (lines 329-361) and, for retrievePriceFeatures,
\* of its caller (lines 368-380).
QuickStatsReturn ==
    /\ qs.pc = "derive"
    /\ LET st == quickStats(qs.row, qs.liveQ, qs.liveM, qs.liveCloses)
       IN qs' = [qs EXCEPT !.pc = "done", !.res = st,
                    !.line = IF qs.via = "retrievePriceFeatures"
                             THEN featuresLine(st) ELSE <<>>]
    /\ UNCHANGED <<pvars, rvars, xvars, clock, ticks, calls, FINNHUB_KEY, upstream,
                   quoteCache, metricCache, candleCache, datasetCache, last>>

\* The caller has taken the result.
StatsTaken ==
    /\ qs.pc = "done"
    /\ qs' = [pc |-> "idle"]
    /\ UNCHANGED <<pvars, rvars, xvars, clock, ticks, calls, FINNHUB_KEY, upstream,
                   quoteCache, metricCache, candleCache, datasetCache, last>>

InitStats == PIdle /\ RIdle /\ SInit /\ XIdle
SNext ==
    \/ GetQuickStats \/ RetrievePriceFeatures \/ AwaitLoadRow \/ AwaitLiveQuote
    \/ AwaitLiveMetrics \/ AwaitLiveCloses \/ QuickStatsReturn \/ StatsTaken
SpecStats == InitStats /\ [][SNext]_vars


(***************************************************************************)
(* Claims about getQuickStats and retrievePriceFeatures                    *)
(***************************************************************************)
Returned == qs.pc = "done"
FailureKinds == OutcomeKinds \ {"success"}

\* C4: whatever the outcomes of the four sources (success, network error,
\* non-2xx, malformed JSON, "no_data"), getQuickStats returns a QuickStats
\* object and does not throw; and had one source failed instead, the fields
\* the other sources supply would be the same: without the quote, high52, rsi
\* and ma50; without the metrics, everything but high52; without the candles,
\* price and high52; without the dataset row, a live price and a live high52.
C4_NeverThrows ==
    Returned =>
        /\ ~qs.threw
        /\ qs.res.maTrend \in {"up", "down", "flat"}
        /\ LET a == qs.res
               noQ == quickStats(qs.row, NoPrice, qs.liveM, qs.liveCloses)
               noM == quickStats(qs.row, qs.liveQ, NoHigh, qs.liveCloses)
               noC == quickStats(qs.row, qs.liveQ, qs.liveM, NoCloses)
               noD == quickStats(NoRow, qs.liveQ, qs.liveM, qs.liveCloses)
           IN /\ noQ.high52 = a.high52 /\ noQ.rsi = a.rsi /\ noQ.ma50 = a.ma50
              /\ noM.price = a.price /\ noM.rsi = a.rsi /\ noM.ma50 = a.ma50
              /\ noM.pctVsMA50 = a.pctVsMA50 /\ noM.maTrend = a.maTrend
              /\ noC.price = a.price /\ noC.high52 = a.high52
              /\ qs.liveQ.price.def => noD.price = a.price
              /\ qs.liveM.high52.def => noD.high52 = a.high52

\* C4 witness: the quote fetch met a network error, the candle fetch a
\* malformed body and the dataset fetch a non-2xx status while the metrics
\* fetch succeeded; the call returned with the live high52 and no price.
C4_Witness ==
    /\ Returned /\ ~qs.threw
    /\ qs.kinds = [dataset |-> "non_2xx", quote |-> "network_error",
                   metric |-> "success", candle |-> "malformed"]
    /\ qs.res.high52 = Int2(200)
    /\ ~qs.res.price.def

\* The closes series the claims speak of: the live candle closes when that
\* list is non-empty, else the dataset row's historical array.
ResolvedCloses ==
    IF qs.liveCloses.isNull \/ qs.liveCloses.data = <<>>
    THEN qs.row.historical ELSE qs.liveCloses.data

\* The arithmetic mean of the last n of xs, and the n-period RSI of the last
\* n + 1 of xs, written out from their textbook definitions.
RECURSIVE TotalOf(_)
TotalOf(xs) ==
    IF Len(xs) = 0 THEN Int2(0)
    ELSE IF Len(xs) = 1 THEN xs[1]
    ELSE RAdd(TotalOf(SubSeq(xs, 1, Len(xs) \div 2)),
              TotalOf(SubSeq(xs, (Len(xs) \div 2) + 1, Len(xs))))
MeanOfLast(xs, n) == RDiv(TotalOf(SubSeq(xs, Len(xs) - n + 1, Len(xs))), Int2(n))
Ups(xs) == {i \in 2..Len(xs) : RLt(xs[i - 1], xs[i])}
Downs(xs) == {i \in 2..Len(xs) : RLt(xs[i], xs[i - 1])}
RECURSIVE MovesOver(_, _)
MovesOver(xs, I) ==
    IF I = {} THEN Int2(0)
    ELSE LET i == CHOOSE j \in I : TRUE
         IN RAdd(IF RLt(xs[i - 1], xs[i]) THEN RSub(xs[i], xs[i - 1])
                 ELSE RSub(xs[i - 1], xs[i]),
                 MovesOver(xs, I \ {i}))
RsiOfLast(xs, n) ==
    LET w == SubSeq(xs, Len(xs) - n, Len(xs))
        up == MovesOver(w, Ups(w))
        dn == MovesOver(w, Downs(w))
    IN IF IsZero(dn) THEN Int2(100)
       ELSE RDiv(RMul(Int2(100), up), RAdd(up, dn))

\* C5: live beats dataset, field by field.  price is the live quote price
\* when that is a number, else the row's price; high52 is the live metrics
\* value when that is a number, else the row's high52; a successful fetch
\* hands on what the endpoint holds; and the derived values (rsi and ma50
\* when the row stores none) are derived from the live closes whenever that
\* list is non-empty, else from the row's historical array.
C5_LivePrecedence ==
    (Returned /\ ~qs.threw) =>
        /\ qs.res.price = IF qs.liveQ.price.def THEN qs.liveQ.price ELSE qs.row.price
        /\ qs.res.high52 = IF qs.liveM.high52.def THEN qs.liveM.high52
                           ELSE qs.row.high52
        /\ (qs.kinds.quote = "success" /\ upstream.quote.c.def /\ upstream.quote.c.n # 0)
              => qs.res.price = upstream.quote.c
        /\ (qs.kinds.metric = "success" /\ upstream.metric.metric52.def)
              => qs.res.high52 = upstream.metric.metric52
        /\ (qs.kinds.candle = "success")
              => ResolvedCloses = SelectSeq(upstream.candle.cs, LAMBDA x : x.def)
        /\ (~qs.row.rsi.def /\ Len(ResolvedCloses) >= 15)
              => qs.res.rsi = RsiOfLast(ResolvedCloses, 14)
        /\ (~qs.row.ma50.def /\ Len(ResolvedCloses) >= 50)
              => qs.res.ma50 = MeanOfLast(ResolvedCloses, 50)

\* C5 witness: the row stores price 140 and a history, the quote answered
\* 150 and the candles 51 closes; the call returned price 150, the live
\* high52, and the rsi of the live closes (all rising: 100).
C5_Witness ==
    /\ Returned /\ ~qs.threw
    /\ qs.row.price = Int2(140) /\ qs.row.historical # <<>>
    /\ qs.kinds.quote = "success" /\ qs.kinds.candle = "success"
    /\ qs.res.price = Int2(150)
    /\ qs.res.high52 = Int2(200)
    /\ Len(ResolvedCloses) = 51
    /\ qs.res.rsi = Int2(100)


C7_PctRecomputed ==
    (Returned /\ ~qs.threw) =>
        LET p == qs.res.price
            m == qs.res.ma50
        IN IF p.def /\ m.def /\ m.n # 0
           THEN qs.res.pctVsMA50 = Rat(100 * (p.n * m.d - m.n * p.d), p.d * m.n)
           ELSE qs.res.pctVsMA50 = qs.row.pctVsMA50

\* C7 witness: the row stores pctVsMA50 = 5 and ma50 = 120, the live price is
\* 150, and the call returned pctVsMA50 = 25.
C7_Witness ==
    /\ Returned /\ ~qs.threw
    /\ qs.row.pctVsMA50 = Int2(5)
    /\ qs.res.price = Int2(150) /\ qs.res.ma50 = Int2(120)
    /\ qs.res.pctVsMA50 = Int2(25)

\* C8: when no source supplies anything (no live price, no live high52, no
\* live closes, no dataset row), every field of the returned QuickStats,
\* the trend included, is undefined, and retrievePriceFeatures returns
\* "No technical features available.".
C8_NothingAvailable ==
    (/\ Returned /\ ~qs.threw
     /\ ~qs.liveQ.price.def /\ ~qs.liveM.high52.def
     /\ qs.liveCloses.isNull /\ qs.row.isNull)
        => /\ qs.res = NoStats
           /\ qs.via = "retrievePriceFeatures" => qs.line = NO_FEATURES


(***************************************************************************)
(* The cache lookups on their own: getLiveQuote, getLiveMetrics,           *)
(* getLiveCloses and loadDatasetJson called one at a time while the clock  *)
(* advances.  last notes, for the lookup just made, the entry it found     *)
(* (had, t0, old), the time (at) and what the lookup did (hit, http, ret). *)

(***************************************************************************)
(* Claims about the order of the loads of getQuickStats                    *)
(***************************************************************************)
\* C23: within one getQuickStats call the four loads (dataset row, live
\* quote, live metrics, live candles) have all been started whenever the
\* call waits for one of them.
C23_AllIssuedBeforeAwait ==
    (qs.pc \in {"row", "quote", "metric", "candle"} /\ qs.via = "getQuickStats")
    => qs.issued = {"dataset", "quote", "metric", "candle"}

\* C25: over the getQuickStats calls made within the dataset TTL the dataset
\* source is read once and normalizeRow is applied once to each of its rows;
\* later calls use the rows normalized by the first.
C25_DatasetLoadedOnce ==
    (calls >= 1 /\ qs.pc # "row" /\ qs.pc # "idle") =>
        /\ loads.reads = 1
        /\ loads.normalized \in {0, Len(upstream.dataset.rows)}


(***************************************************************************)
MaxLookups == 2
MaxTicks == 2

\* The instants at which an entry of a cache stops being fresh.  Only the
\* order of the clock and these instants shows in a lookup, so the clock
\* moves to an instant next to one of them.
ExpiriesOf(cache, ttl) == {cache[k].t + ttl : k \in DOMAIN cache}
Expiries ==
    ExpiriesOf(quoteCache, TTL_QUOTE) \cup ExpiriesOf(metricCache, TTL_METRIC)
    \cup ExpiriesOf(candleCache, TTL_CANDLE) \cup ExpiriesOf(datasetCache, TTL_DATASET)
TickTargets == {e + d : e \in Expiries, d \in {-1, 0, 1}}

Lookup(op, ticker, cache, k, old, r) ==
    [op |-> op, ticker |-> ticker,
     had |-> k \in DOMAIN cache,
     t0 |-> IF k \in DOMAIN cache THEN cache[k].t ELSE 0,
     old |-> old, at |-> clock,
     hit |-> r.hit, http |-> r.http, ret |-> r.ret]

CInit ==
    /\ upstream \in CacheUpstreams
    /\ FINNHUB_KEY = upstream.key
    /\ clock = 0 /\ ticks = 0 /\ calls = 0
    /\ quoteCache = NoMap /\ metricCache = NoMap /\ candleCache = NoMap
    /\ datasetCache = NoMap
    /\ last = [op |-> "none"]
    /\ qs = [pc |-> "idle"]

GetLiveQuote ==
    /\ calls < MaxLookups
    /\ \E ticker \in StatTickers, kind \in OutcomeKinds :
         LET t == normT(ticker)
             r == getLiveQuote(ticker, Response(kind, upstream.quote))
         IN /\ quoteCache' = r.cache
            /\ last' = Lookup("quote", ticker, quoteCache, t,
                              IF t \in DOMAIN quoteCache THEN quoteCache[t].data
                              ELSE NoPrice, r)
    /\ calls' = calls + 1
    /\ UNCHANGED <<pvars, rvars, xvars, clock, ticks, FINNHUB_KEY, upstream, metricCache,
                   candleCache, datasetCache, qs>>

GetLiveMetrics ==
    /\ calls < MaxLookups
    /\ \E ticker \in StatTickers, kind \in OutcomeKinds :
         LET t == normT(ticker)
             r == getLiveMetrics(ticker, Response(kind, upstream.metric))
         IN /\ metricCache' = r.cache
            /\ last' = Lookup("metric", ticker, metricCache, t,
                              IF t \in DOMAIN metricCache THEN metricCache[t].data
                              ELSE NoHigh, r)
    /\ calls' = calls + 1
    /\ UNCHANGED <<pvars, rvars, xvars, clock, ticks, FINNHUB_KEY, upstream, quoteCache,
                   candleCache, datasetCache, qs>>

GetLiveCloses ==
    /\ calls < MaxLookups
    /\ \E ticker \in StatTickers, kind \in OutcomeKinds :
         LET t == normT(ticker)
             r == getLiveCloses(ticker, Response(kind, upstream.candle))
         IN /\ candleCache' = r.cache
            /\ last' = Lookup("candle", ticker, candleCache, t,
                              IF t \in DOMAIN candleCache
                              THEN Closes(candleCache[t].data) ELSE NoCloses, r)
    /\ calls' = calls + 1
    /\ UNCHANGED <<pvars, rvars, xvars, clock, ticks, FINNHUB_KEY, upstream, quoteCache,
                   metricCache, datasetCache, qs>>

LoadDatasetJson ==
    /\ calls < MaxLookups
    /\ \E kind \in OutcomeKinds :
         LET r == loadDatasetJson(Response(kind, upstream.dataset))
         IN /\ datasetCache' = r.cache
            /\ last' = Lookup("dataset", <<>>, datasetCache, PUBLIC_JSON,
                              IF PUBLIC_JSON \in DOMAIN datasetCache
                              THEN Rows(datasetCache[PUBLIC_JSON].data) ELSE NoRows, r)
    /\ calls' = calls + 1
    /\ UNCHANGED <<pvars, rvars, xvars, clock, ticks, FINNHUB_KEY, upstream, quoteCache,
                   metricCache, candleCache, qs>>

\* Date.now() moves on.
Tick ==
    /\ ticks < MaxTicks
    /\ \E at \in TickTargets : at > clock /\ clock' = at
    /\ ticks' = ticks + 1
    /\ UNCHANGED <<pvars, rvars, xvars, calls, FINNHUB_KEY, upstream, quoteCache,
                   metricCache, candleCache, datasetCache, last, qs>>

InitCache == PIdle /\ RIdle /\ CInit /\ XIdle
CNext == GetLiveQuote \/ GetLiveMetrics \/ GetLiveCloses \/ LoadDatasetJson \/ Tick
SpecCache == InitCache /\ [][CNext]_vars

(***************************************************************************)
(* Claims about the caches                                                 *)
(***************************************************************************)
ClaimedTTL(op) ==
    IF op = "quote" THEN 60 * 1000
    ELSE IF op = "metric" THEN 6 * 3600 * 1000
    ELSE IF op = "candle" THEN 2 * 3600 * 1000
    ELSE 10 * 60 * 1000

\* Whether a lookup of this kind sends a request when it misses: the dataset
\* loader always does, finnhubGet does when the Finnhub key is set.
Requests(op) == op = "dataset" \/ FINNHUB_KEY

FetchFailed(op, nothing) ==
    last.op = op /\ ~last.hit /\ last.http = 1 /\ last.ret = nothing
\* The last lookup found the entry of a failed fetch, younger than ttl.
FoundFailure(op, nothing) ==
    last.op = op /\ last.had /\ last.old = nothing
    /\ last.at - last.t0 < ClaimedTTL(op)

\* C27: a quote or metric fetch that failed or came back empty is stored
\* like a successful one, and for 60 s (quote) or 6 h (metric) every lookup
\* of the ticker returns the undefined price or high52 without a request,
\* whatever the provider would answer now; a candle fetch that failed stores
\* nothing, so that the next lookup finds no fresh entry and fetches again.
C27_FailureCaching ==
    LET k == normT(last.ticker)
    IN /\ FetchFailed("quote", NoPrice) =>
            (k \in DOMAIN quoteCache /\ quoteCache[k] = [t |-> last.at, data |-> NoPrice])
       /\ FetchFailed("metric", NoHigh) =>
            (k \in DOMAIN metricCache /\ metricCache[k] = [t |-> last.at, data |-> NoHigh])
       /\ FoundFailure("quote", NoPrice) =>
            (last.hit /\ last.http = 0 /\ ~last.ret.price.def)
       /\ FoundFailure("metric", NoHigh) =>
            (last.hit /\ last.http = 0 /\ ~last.ret.high52.def)
       /\ FetchFailed("candle", NoCloses) =>
            /\ k \in DOMAIN candleCache => (last.had /\ candleCache[k].t = last.t0)
            /\ ~Served(candleCache, k, TTL_CANDLE)

\* A quote fetch had failed; one millisecond before the minute was over the
\* ticker was looked up again and the undefined price was served without a
\* request.
C27_Witness ==
    /\ FoundFailure("quote", NoPrice)
    /\ last.at - last.t0 = 60 * 1000 - 1
    /\ FINNHUB_KEY
    /\ last.hit /\ last.http = 0


(***************************************************************************)
(* /api/prices POST handler and its response cache (forecast.ts 155-168,   *)
(* 345-372)                                                                *)
(***************************************************************************)
TTL_MS == 4000

\* UTF-16 code unit of a character of a ticker.
CharCode(c) ==
    IF c = " " THEN 32
    ELSE IF c = "$" THEN 36
    ELSE IF c = "," THEN 44
    ELSE IF c = "." THEN 46
    ELSE IF IsUpper(c) THEN 64 + (CHOOSE i \in 1..26 : UpperCase[i] = c)
    ELSE IF IsLower(c) THEN 96 + (CHOOSE i \in 1..26 : LowerCase[i] = c)
    ELSE 48

\* a < b as Array.prototype.sort compares strings by default
RECURSIVE StrLt(_, _)
StrLt(a, b) ==
    IF b = <<>> THEN FALSE
    ELSE IF a = <<>> THEN TRUE
    ELSE IF CharCode(Head(a)) # CharCode(Head(b)) THEN CharCode(Head(a)) < CharCode(Head(b))
    ELSE StrLt(Tail(a), Tail(b))

RECURSIVE InsertSorted(_, _)
InsertSorted(xs, x) ==
    IF xs = <<>> THEN <<x>>
    ELSE IF StrLt(x, Head(xs)) THEN <<x>> \o xs
         ELSE <<Head(xs)>> \o InsertSorted(Tail(xs), x)

\* xs.sort()
RECURSIVE sort(_)
sort(xs) == IF xs = <<>> THEN <<>> ELSE InsertSorted(sort(Tail(xs)), Head(xs))

\* Array.from(new Set(tickers.map(normTicker))).sort().join(",")  (line 354)
cacheKey(body) ==
    JoinWith(sort(Uniq([i \in 1..Len(body) |-> normTicker(body[i])])), <<",">>)

\* ---- inputs of the POST model ----
MaxPosts == 2
MaxBody == 2
PostRaw == { <<"m","s","f","t"," ">>, <<" ","a","a","p","l">> }

\* Date.now() as the next call may read it: the instant of the previous call,
\* or the last instant at which a cached entry is fresh, or the first at which
\* it is stale; never earlier than the previous reading.
Nows ==
    {post.now} \cup
    {x \in UNION {{PRICE_CACHE[k].exp - 1, PRICE_CACHE[k].exp} :
                     k \in DOMAIN PRICE_CACHE} : x >= post.now}

NoPayload == [error |-> "none"]
Replied(p, status, payload) ==
    [pc |-> "replied", count |-> p.count + 1, now |-> p.now, body |-> p.body,
     key |-> p.key, status |-> status, payload |-> payload]

\* POST, up to the first await inside resolvePrices (lines 346-362).
Post ==
    /\ pc = "idle"
    /\ post.pc \in {"idle", "replied"}
    /\ post.count < MaxPosts
    /\ \E body \in SeqsOf(PostRaw, 0, MaxBody), now \in Nows :
         LET key == cacheKey(body)
             p == [post EXCEPT !.now = now, !.body = body, !.key = key]
         IN IF body = <<>>
            THEN /\ post' = Replied(p, 400, [error |-> "tickers[] required"])
                 /\ UNCHANGED <<pc, tickers, prices, errors, chain, idx, log>>
            ELSE IF key \in DOMAIN PRICE_CACHE /\ PRICE_CACHE[key].exp > now
            THEN /\ post' = Replied(p, 200,
                                    [PRICE_CACHE[key].payload EXCEPT
                                        !.asOf = PRICE_CACHE[key].asOf])
                 /\ UNCHANGED <<pc, tickers, prices, errors, chain, idx, log>>
            ELSE /\ ResolveBegin(body)
                 /\ post' = [p EXCEPT !.pc = "await", !.status = 0,
                                      !.payload = NoPayload]
    /\ UNCHANGED <<ENV, health, PRICE_CACHE, rvars, svars, ovars, fvars, ivars, zvars>>

\* A buggy handler: the entry is stored although resolvePrices threw.
PostCatchStored ==
    /\ pc = "threw"
    /\ post.pc = "await"
    /\ post' = Replied(post, 200, [prices |-> NoMap, source |-> "none", filled |-> 0,
                                   errors |-> NoMap, asOf |-> post.now])
    /\ PRICE_CACHE' = ObjectAssign(PRICE_CACHE,
           [k \in {post.key} |->
               [key |-> post.key, asOf |-> post.now, exp |-> post.now + TTL_MS,
                payload |-> [prices |-> NoMap, source |-> "none", filled |-> 0,
                             errors |-> NoMap, asOf |-> 0]]])
    /\ pc' = "idle"
    /\ tickers' = <<>> /\ prices' = NoMap /\ errors' = NoMap
    /\ chain' = <<>> /\ idx' = 1 /\ log' = <<>>
    /\ UNCHANGED <<ENV, health, rvars, svars, ovars, fvars, ivars, zvars>>

\* catch (e): resolvePrices threw (lines 369-371).
PostCatch ==
    /\ pc = "threw"
    /\ post.pc = "await"
    /\ post' = Replied(post, 500, [error |-> "No price provider configured"])
    /\ pc' = "idle"
    /\ tickers' = <<>> /\ prices' = NoMap /\ errors' = NoMap
    /\ chain' = <<>> /\ idx' = 1 /\ log' = <<>>
    /\ UNCHANGED <<ENV, health, PRICE_CACHE, rvars, svars, ovars, fvars, ivars, zvars>>

\* resolvePrices returned: the payload is cached and sent (lines 362-368).
PostReturn ==
    /\ pc = "done"
    /\ post.pc = "await"
    /\ LET payload == [prices |-> resolveResult.prices, source |-> resolveResult.source,
                       filled |-> resolveResult.filled, errors |-> resolveResult.errors,
                       asOf |-> 0]
           entry == [key |-> post.key, asOf |-> post.now, exp |-> post.now + TTL_MS,
                     payload |-> payload]
       IN /\ PRICE_CACHE' = ObjectAssign(PRICE_CACHE, [k \in {post.key} |-> entry])
          /\ post' = Replied(post, 200, [payload EXCEPT !.asOf = post.now])
    /\ pc' = "idle"
    /\ tickers' = <<>> /\ prices' = NoMap /\ errors' = NoMap
    /\ chain' = <<>> /\ idx' = 1 /\ log' = <<>>
    /\ UNCHANGED <<ENV, health, rvars, svars, ovars, fvars, ivars, zvars>>

\* The deployments of the POST model: no provider, one, or two of them.
PostEnvs ==
    [PRICES_PROVIDER : {<<>>, <<"f","i","n","n","h","u","b">>}, POLYGON_KEY : {FALSE},
     IEX_KEY : BOOLEAN, FINNHUB_KEY : BOOLEAN, AV_KEY : {FALSE}]

HInit ==
    /\ ENV \in PostEnvs
    /\ pc = "idle"
    /\ tickers = <<>>
    /\ prices = NoMap
    /\ errors = NoMap
    /\ chain = <<>>
    /\ idx = 1
    /\ log = <<>>
    /\ health = NoHealth
    /\ PRICE_CACHE = NoMap
    /\ post = [pc |-> "idle", count |-> 0, now |-> 0, body |-> <<>>, key |-> <<>>,
               status |-> 0, payload |-> NoPayload]

HNext == Post \/ ProviderStep \/ PostCatch \/ PostReturn

InitPost == HInit /\ RIdle /\ SIdle /\ OIdle /\ FIdle /\ IIdle /\ ZIdle

SpecPost == InitPost /\ [][HNext]_vars


\* The tickers a POST body asks for, normalized; blank ones are dropped.
Asked == {normTicker(post.body[i]) : i \in 1..Len(post.body)} \ {<<>>}

\* C11: with no price provider configured resolvePrices throws (it never
\* loops or returns), a POST that reaches it is answered 500 (400 when the
\* body names no ticker) and the response cache stays empty; with at least
\* one provider configured resolvePrices never throws and every POST naming a
\* ticker is answered 200, each asked ticker without a price being listed in
\* errors.
C11_PostStatus ==
    /\ Configured = {} =>
         /\ pc \notin {"loop", "done"}
         /\ PRICE_CACHE = NoMap
         /\ post.pc = "replied" =>
              post.status = IF post.body = <<>> THEN 400 ELSE 500
    /\ Configured # {} =>
         /\ pc # "threw"
         /\ (post.pc = "replied" /\ post.body # <<>>) =>
              /\ post.status = 200
              /\ \A t \in Asked :
                    t \notin DOMAIN post.payload.prices => t \in DOMAIN post.payload.errors

\* A second POST in a deployment without provider has been answered 500.
C11_Witness ==
    /\ Configured = {}
    /\ post.pc = "replied"
    /\ post.count = 2
    /\ post.body # <<>>
    /\ post.status = 500
    /\ PRICE_CACHE = NoMap

\* Every provider failed for every ticker of a POST answered 200.
C11_AllFailed ==
    /\ Cardinality(Configured) = 2
    /\ post.pc = "replied"
    /\ post.status = 200
    /\ Cardinality(Asked) = 2
    /\ post.payload.prices = NoMap
    /\ DOMAIN post.payload.errors = Asked


(***************************************************************************)
(* /api/ohlc (part_008): the three candle clients and the GET handler.     *)
(* A row of an upstream answer carries its time t in epoch ms (a number,   *)
(* or a date the client parses) and its open o; the other fields of a      *)
(* candle play no part in the handler's control flow.                      *)
(*                                                                         *)
(* An upstream answers one of                                              *)
(*   [k |-> "ok", rows |-> R]  2xx, JSON holding the rows R                *)
(*   [k |-> "norows"]          2xx, JSON without the array of rows         *)
(*   [k |-> "http"]            a non-2xx status                            *)
(*   [k |-> "badjson"]         2xx, r.json() rejects                       *)
(*   [k |-> "network"]         fetch rejects                               *)
(* A client returns [kind |-> "null"], [kind |-> "value", candles, source] *)
(* or [kind |-> "threw"] when an exception leaves it.                      *)
(***************************************************************************)
Clients == <<"polygon", "twelvedata", "alphavantage">>

ClientNull == [kind |-> "null", candles |-> <<>>, source |-> "none"]
ClientThrew == [kind |-> "threw", candles |-> <<>>, source |-> "none"]
ClientValue(candles, source) == [kind |-> "value", candles |-> candles, source |-> source]

\* rows.map(...).filter(c => Number.isFinite(c.time) && Number.isFinite(c.open))
Candles(rows) ==
    SelectSeq([i \in 1..Len(rows) |->
                  [time |-> IF rows[i].t.def THEN Int2(rows[i].t.n \div 1000) ELSE Undefined,
                   open |-> rows[i].o]],
              LAMBDA c : c.time.def /\ c.open.def)

\* Math.min(Math.max(days || dflt, 1), hi)
Clamp(days, dflt, hi) ==
    LET d == IF days.def /\ days.n # 0 THEN days.n ELSE dflt
        lo == IF d > 1 THEN d ELSE 1
    IN IF lo < hi THEN lo ELSE hi

RECURSIVE InsertByTime(_, _)
InsertByTime(xs, x) ==
    IF xs = <<>> THEN <<x>>
    ELSE IF x.n < Head(xs).n THEN <<x>> \o xs
         ELSE <<Head(xs)>> \o InsertByTime(Tail(xs), x)

\* xs.sort((a, b) => a.time - b.time), a stable sort
RECURSIVE SortByTime(_)
SortByTime(xs) ==
    IF xs = <<>> THEN <<>>
    ELSE LET init == SortByTime(SubSeq(xs, 1, Len(xs) - 1))
             x == xs[Len(xs)]
             before == SelectSeq(init, LAMBDA c : c.time.n <= x.time.n)
             after == SelectSeq(init, LAMBDA c : c.time.n > x.time.n)
         IN before \o <<x>> \o after

\* polygonCandles after its fetch was answered (lines 62-78)
polygonCandles(ans) ==
    CASE ans.k \in {"network", "badjson"} -> ClientThrew
      [] ans.k = "http" -> ClientNull
      [] ans.k = "norows" -> ClientValue(<<>>, "polygon")
      [] ans.k = "ok" -> ClientValue(Candles(ans.rows), "polygon")

\* twelveDataCandles after its fetch was answered (lines 101-120)
twelveDataCandles(ans) ==
    CASE ans.k \in {"network", "badjson"} -> ClientThrew
      [] ans.k \in {"http", "norows"} -> ClientNull
      [] ans.k = "ok" -> ClientValue(Reverse(Candles(ans.rows)), "twelvedata")

\* entries.sort((a, b) => (a[0] < b[0] ? -1 : 1)): by date; a row without a
\* parsable date keeps its key, which sorts after every ISO date here.
SortEntries(rows) ==
    LET dated == SelectSeq(rows, LAMBDA r : r.t.def)
        undated == SelectSeq(rows, LAMBDA r : ~r.t.def)
        asCandle == [i \in 1..Len(dated) |-> [time |-> dated[i].t, row |-> dated[i]]]
        sorted == SortByTime(asCandle)
    IN [i \in 1..Len(sorted) |-> sorted[i].row] \o undated

\* alphaVantageDaily after its fetch was answered (lines 135-156)
alphaVantageDaily(ans, days) ==
    CASE ans.k \in {"network", "badjson"} -> ClientThrew
      [] ans.k = "http" -> ClientNull
      [] ans.k = "norows" -> ClientValue(<<>>, "alphavantage")
      [] ans.k = "ok" ->
           LET entries == SortEntries(ans.rows)
               limit == Clamp(days, 180, 1825)
               from == IF Len(entries) > limit THEN Len(entries) - limit + 1 ELSE 1
           IN ClientValue(Candles(SubSeq(entries, from, Len(entries))), "alphavantage")

clientResult(i, ans, days) ==
    CASE i = 1 -> polygonCandles(ans)
      [] i = 2 -> twelveDataCandles(ans)
      [] i = 3 -> alphaVantageDaily(ans, days)

\* const KEY = env(...); if (!KEY) return null   (lines 39-40, 87-88, 127-128)
hasKey(env, i) ==
    CASE i = 1 -> env.POLYGON_API_KEY
      [] i = 2 -> env.TWELVEDATA_API_KEY
      [] i = 3 -> env.ALPHA_VANTAGE_API_KEY

\* !result || result.candles.length === 0
NoCandles(res) == res.kind = "null" \/ res.candles = <<>>

OhlcReply(o, status, body) == [o EXCEPT !.pc = "replied", !.status = status, !.body = body]

\* The handler from the moment client i has returned res (lines 181-208, and
\* the catch of 209-211): it answers, or calls the next client, which returns
\* at once without a key and otherwise leaves the handler awaiting its fetch.
RECURSIVE AfterClient(_, _, _)
AfterClient(o, i, res) ==
    IF res.kind = "threw"
    THEN OhlcReply(o, 500, [error |-> "ohlc_failed"])
    ELSE IF i < 3 /\ NoCandles(res) /\ (i + 1 = 3 => o.interval = "1d")
    THEN IF hasKey(o.env, i + 1)
         THEN [o EXCEPT !.pc = Clients[i + 1],
                        !.calls = Append(@, [client |-> Clients[i + 1], sent |-> TRUE])]
         ELSE AfterClient([o EXCEPT !.calls = Append(@, [client |-> Clients[i + 1],
                                                         sent |-> FALSE])],
                          i + 1, ClientNull)
    ELSE IF NoCandles(res)
    THEN OhlcReply(o, 200, [candles |-> <<>>, source |-> "none", interval |-> o.interval,
                            error |-> "no_data"])
    ELSE OhlcReply(o, 200, [candles |-> SortByTime(res.candles), source |-> res.source,
                            interval |-> o.interval, error |-> "none"])

\* ---- inputs of the /api/ohlc model ----
OhlcTickers == { <<>>, <<" ","a","a","p","l">> }
OhlcMinutes == { Undefined, Int2(0), Int2(5) }
OhlcDays == { Int2(0), Int2(1) }
RowSets ==
    { <<>>,
      << [t |-> Int2(2000), o |-> Int2(7)], [t |-> Int2(1000), o |-> Int2(5)] >>,
      << [t |-> Int2(1000), o |-> Undefined] >>,
      << [t |-> Undefined, o |-> Int2(5)], [t |-> Int2(3000), o |-> Int2(9)] >> }
OhlcAnswers ==
    {[k |-> "ok", rows |-> R] : R \in RowSets}
    \cup {[k |-> x, rows |-> <<>>] : x \in {"norows", "http", "badjson", "network"}}

OInit ==
    ohlc \in {[pc |-> "idle", env |-> e, T |-> <<>>, interval |-> "1d", days |-> Int2(0),
               calls |-> <<>>, answers |-> <<>>, status |-> 0, body |-> [error |-> "none"]] :
                 e \in [POLYGON_API_KEY : BOOLEAN, TWELVEDATA_API_KEY : BOOLEAN,
                        ALPHA_VANTAGE_API_KEY : BOOLEAN]}

\* GET, up to its first awaited fetch (lines 161-181).
OhlcGet ==
    /\ ohlc.pc \in {"idle", "replied"}
    /\ \E tRaw \in OhlcTickers, minutes \in OhlcMinutes, days \in OhlcDays :
         LET T == toUpperCase(trim(tRaw))
             interval == IF minutes.def /\ minutes.n > 0 THEN "1m" ELSE "1d"
             o == [ohlc EXCEPT !.T = T, !.interval = interval, !.days = days,
                               !.calls = <<>>, !.answers = <<>>, !.status = 0,
                               !.body = [error |-> "none"]]
         IN ohlc' = IF T = <<>> THEN OhlcReply(o, 400, [error |-> "ticker_required"])
                    ELSE IF hasKey(o.env, 1)
                    THEN [o EXCEPT !.pc = "polygon",
                                   !.calls = <<[client |-> "polygon", sent |-> TRUE]>>]
                    ELSE AfterClient([o EXCEPT !.calls = <<[client |-> "polygon",
                                                            sent |-> FALSE]>>],
                                     1, ClientNull)
    /\ UNCHANGED <<pvars, rvars, svars, hvars, fvars, ivars, zvars>>

\* The awaited fetch of client i is answered; the handler runs on to its next
\* await or to its reply.
ClientAnswer(i) ==
    /\ ohlc.pc = Clients[i]
    /\ \E ans \in OhlcAnswers :
         ohlc' = AfterClient([ohlc EXCEPT !.answers = Append(@, [client |-> Clients[i],
                                                                  k |-> ans.k])],
                             i, clientResult(i, ans, ohlc.days))
    /\ UNCHANGED <<pvars, rvars, svars, hvars, fvars, ivars, zvars>>

PolygonAnswer == ClientAnswer(1)
TwelveDataAnswer == ClientAnswer(2)
AlphaVantageAnswer == ClientAnswer(3)

ONext == OhlcGet \/ PolygonAnswer \/ TwelveDataAnswer \/ AlphaVantageAnswer

InitOhlc == PIdle /\ RIdle /\ SIdle /\ HIdle /\ OInit /\ FIdle /\ IIdle /\ ZIdle

SpecOhlc == InitOhlc /\ [][ONext]_vars

\* The clients called, and the failures their fetches met.
Called(c) == \E i \in 1..Len(ohlc.calls) : ohlc.calls[i].client = c
FailedFetch(c) ==
    \E i \in 1..Len(ohlc.answers) :
        /\ ohlc.answers[i].client = c
        /\ ohlc.answers[i].k \in {"network", "http", "badjson"}

\* C12: whatever way a candle fetch fails (network error, non-2xx status,
\* unparsable body), no exception leaves the client, so the handler never
\* answers 500; a failed Polygon fetch is followed by a call of the TwelveData
\* client and, for daily bars, a failed TwelveData fetch by a call of the
\* Alpha Vantage client, before the handler answers.
C12_FallbackOnFailure ==
    ohlc.pc = "replied" =>
        /\ ohlc.status # 500
        /\ FailedFetch("polygon") => Called("twelvedata")
        /\ (FailedFetch("twelvedata") /\ ohlc.interval = "1d") => Called("alphavantage")


(***************************************************************************)
(* Portfolio builder (part_009, src/lib/portfolio.ts).                     *)
(* A dataset row is [ticker, sector, close, price, dy, cap]: tickers and   *)
(* sectors are strings, the others numbers or undefined.  Of the           *)
(* alternative spellings of a field the model keeps close and price for    *)
(* the price and one each for the yield and the market cap.  Market caps   *)
(* are plain dollars, far below the default relaxCapTo of 5,000,000,000.   *)
(***************************************************************************)
\* cleanTicker: (t || "").toUpperCase().trim()
cleanTicker(t) == trim(toUpperCase(t))

\* getPrice: num(r.close ?? r.price ?? r.last)
getPrice(r) == num(Coalesce(r.close, r.price))
getYield(r) == num(r.dy)
getMktCap(r) == num(r.cap)

\* uniqByTicker: the first row of each clean, non-empty ticker, the ticker
\* rewritten to its clean form.
RECURSIVE uniqByTicker(_)
uniqByTicker(arr) ==
    IF arr = <<>> THEN <<>>
    ELSE LET init == uniqByTicker(SubSeq(arr, 1, Len(arr) - 1))
             x == arr[Len(arr)]
             t == cleanTicker(x.ticker)
         IN IF t = <<>> \/ \E i \in 1..Len(init) : init[i].ticker = t
            THEN init
            ELSE Append(init, [x EXCEPT !.ticker = t])

\* sectorOf: (r.sector || "Unknown").trim()
sectorOf(r) ==
    trim(IF r.sector = <<>> THEN <<"U","n","k","n","o","w","n">> ELSE r.sector)

\* The price guard: px != null && Number.isFinite(px) && px > 0 && px >= minP
PriceValid(r, minPrice) ==
    LET px == getPrice(r)
    IN px.def /\ RLt(Int2(0), px) /\ RLe(Coalesce(minPrice, Int2(0)), px)

\* screenRows(rows, sc); an absent floor is -Infinity.
screenRows(rows, sc) ==
    LET exclude == {cleanTicker(sc.exclude[i]) : i \in 1..Len(sc.exclude)}
        keep(r) ==
            LET t == cleanTicker(r.ticker)
                y == getYield(r)
                mc == getMktCap(r)
            IN /\ t # <<>> /\ t \notin exclude
               /\ PriceValid(r, sc.minPrice)
               /\ ~(y.def /\ sc.minYield.def /\ RLt(y, sc.minYield))
               /\ ~(mc.def /\ sc.minMktCap.def /\ RLt(mc, sc.minMktCap))
    IN SelectSeq(rows, keep)

\* rankForDividend(a, b) < 0: a sorts before b.  Higher yield first, then
\* the larger cap, then the cheaper price; an absent yield or cap is -Infinity.
DescBefore(x, y) == x.def /\ (~y.def \/ RLt(y, x))
rankForDividend(a, b) ==
    LET ay == getYield(a)   by == getYield(b)
        am == getMktCap(a)  bm == getMktCap(b)
        ap == getPrice(a)   bp == getPrice(b)
    IN IF ay # by THEN DescBefore(ay, by)
       ELSE IF am # bm THEN DescBefore(am, bm)
       ELSE ap.def /\ (~bp.def \/ RLt(ap, bp))

\* rows.sort(rankForDividend): Array.prototype.sort is stable.
RECURSIVE SortRanked(_)
SortRanked(rows) ==
    IF rows = <<>> THEN <<>>
    ELSE LET init == SortRanked(SubSeq(rows, 1, Len(rows) - 1))
             x == rows[Len(rows)]
             k == Cardinality({i \in 1..Len(init) : ~rankForDividend(x, init[i])})
         IN SubSeq(init, 1, k) \o <<x>> \o SubSeq(init, k + 1, Len(init))

\* xs.slice(0, k)
Take(xs, k) == SubSeq(xs, 1, IF k < Len(xs) THEN k ELSE Len(xs))

Floor(x) == x.n \div x.d
RMax(x, y) == IF RLt(x, y) THEN y ELSE x

DEFAULT_RELAX_YIELD_TO == Rat(2, 1)
DEFAULT_RELAX_YIELD_STEP == Rat(1, 2)
DEFAULT_RELAX_CAP_FACTOR == Rat(4, 5)

\* Step 2 of fillSectorWithFallback (lines 196-201): the yield floor is
\* lowered step by step; the result is [minY, pool, done], done meaning that
\* the pool reached targetN.
RECURSIVE relaxYield(_, _, _, _, _)
relaxYield(sectorRows, strict, targetN, minY, pool) ==
    LET relaxYieldTo == Coalesce(strict.relaxYieldTo, DEFAULT_RELAX_YIELD_TO)
        relaxYieldStep == Coalesce(strict.relaxYieldStep, DEFAULT_RELAX_YIELD_STEP)
    IN IF Len(pool) < targetN /\ RLt(relaxYieldTo, minY)
       THEN LET y == RMax(relaxYieldTo, RSub(minY, relaxYieldStep))
                p == SortRanked(screenRows(sectorRows, [strict EXCEPT !.minYield = y]))
            IN IF Len(p) >= targetN THEN [minY |-> y, pool |-> p, done |-> TRUE]
               ELSE relaxYield(sectorRows, strict, targetN, y, p)
       ELSE [minY |-> minY, pool |-> pool, done |-> FALSE]

\* Step 3 (lines 204-209): the cap floor is lowered by a factor.  Without
\* strict.relaxCapTo the floor to reach is 5,000,000,000, above every cap of
\* the model, so the loop does not run.
RECURSIVE relaxCap(_, _, _, _, _, _)
relaxCap(sectorRows, strict, targetN, minY, minC, pool) ==
    LET relaxCapFactor == Coalesce(strict.relaxCapFactor, DEFAULT_RELAX_CAP_FACTOR)
    IN IF Len(pool) < targetN /\ strict.relaxCapTo.def /\ RLt(strict.relaxCapTo, minC)
       THEN LET c == RMax(strict.relaxCapTo, Int2(Floor(RMul(minC, relaxCapFactor))))
                p == SortRanked(screenRows(sectorRows,
                         [strict EXCEPT !.minYield = minY, !.minMktCap = c]))
            IN IF Len(p) >= targetN THEN [pool |-> p, done |-> TRUE]
               ELSE relaxCap(sectorRows, strict, targetN, minY, c, p)
       ELSE [pool |-> pool, done |-> FALSE]

\* Step 4 (lines 211-219): every floor but the price guard is dropped.
lastResort(sectorRows, strict) ==
    SortRanked(SelectSeq(sectorRows, LAMBDA r : PriceValid(r, strict.minPrice)))

\* A last resort that keeps to the strict screen.
fillSectorStrictOnly(sectorRows, strict, targetN) ==
    Take(SortRanked(screenRows(sectorRows, strict)), targetN)

fillSectorWithFallback(sectorRows, strict, targetN) ==
    LET pool1 == SortRanked(screenRows(sectorRows, strict))
        s2 == relaxYield(sectorRows, strict, targetN,
                         Coalesce(strict.minYield, Int2(0)), pool1)
        s3 == relaxCap(sectorRows, strict, targetN, s2.minY,
                       Coalesce(strict.minMktCap, Int2(0)), s2.pool)
    IN IF Len(pool1) >= targetN THEN Take(pool1, targetN)
       ELSE IF s2.done THEN Take(s2.pool, targetN)
       ELSE IF s3.done THEN Take(s3.pool, targetN)
       ELSE Take(lastResort(sectorRows, strict), targetN)


\* normalizeWeights (lines 253-260); a weight map is the sequence of its
\* entries [sector, w] in insertion order.
normalizeWeights(w) ==
    LET sum == SumOf([i \in 1..Len(w) |-> w[i].w], 1, Len(w))
    IN IF RLe(sum, Int2(0)) THEN w
       ELSE [i \in 1..Len(w) |-> [sector |-> w[i].sector, w |-> RDiv(w[i].w, sum)]]

\* a.sector.localeCompare(b.sector) < 0, for names made of letters that
\* differ in more than their case
localeBefore(a, b) == StrLt(toLowerCase(a), toLowerCase(b))

\* (a, b) => b.frac - a.frac || a.sector.localeCompare(b.sector), negative
slotBefore(a, b) ==
    IF a.frac # b.frac THEN RLt(b.frac, a.frac) ELSE localeBefore(a.sector, b.sector)

RECURSIVE SortSlots(_)
SortSlots(xs) ==
    IF xs = <<>> THEN <<>>
    ELSE LET init == SortSlots(SubSeq(xs, 1, Len(xs) - 1))
             x == xs[Len(xs)]
             k == Cardinality({i \in 1..Len(init) : ~slotBefore(x, init[i])})
         IN SubSeq(init, 1, k) \o <<x>> \o SubSeq(init, k + 1, Len(init))

RECURSIVE SumSlots(_)
SumSlots(xs) == IF xs = <<>> THEN 0 ELSE Head(xs).slots + SumSlots(Tail(xs))

\* A slot split that hands the slots left over to the sectors in the order of
\* the weight map.
slotSplitUnsorted(sectors, totalSlots) ==
    LET floorSlots == [i \in 1..Len(sectors) |->
                          LET exact == RMul(Int2(totalSlots), sectors[i].w)
                          IN [sector |-> sectors[i].sector, slots |-> Floor(exact),
                              frac |-> RSub(exact, Int2(Floor(exact)))]]
        used == SumSlots(floorSlots)
    IN [i \in 1..Len(floorSlots) |->
           IF i <= totalSlots - used THEN [floorSlots[i] EXCEPT !.slots = @ + 1]
           ELSE floorSlots[i]]

\* The deterministic slot split (lines 276-284): floor, then one more slot to
\* the largest fractional remainders while slots are left.
slotSplit(sectors, totalSlots) ==
    LET floorSlots == [i \in 1..Len(sectors) |->
                          LET exact == RMul(Int2(totalSlots), sectors[i].w)
                          IN [sector |-> sectors[i].sector, slots |-> Floor(exact),
                              frac |-> RSub(exact, Int2(Floor(exact)))]]
        used == SumSlots(floorSlots)
        sorted == SortSlots(floorSlots)
    IN [i \in 1..Len(sorted) |->
           IF i <= totalSlots - used THEN [sorted[i] EXCEPT !.slots = @ + 1]
           ELSE sorted[i]]

strictOf(opts) ==
    [minYield |-> opts.minDividendYield, minMktCap |-> opts.minMarketCap,
     minPrice |-> Coalesce(opts.minPrice, Int2(0)),
     include |-> opts.include, exclude |-> opts.exclude,
     relaxYieldTo |-> opts.relaxYieldTo, relaxYieldStep |-> opts.relaxYieldStep,
     relaxCapTo |-> opts.relaxCapTo, relaxCapFactor |-> opts.relaxCapFactor]

InSector(rows, sector) == SelectSeq(rows, LAMBDA r : sectorOf(r) = sector)
TickersOf(rows) == {rows[i].ticker : i \in 1..Len(rows)}

\* The per-sector fill (lines 298-304), sector by sector in the order of the
\* slot split.
RECURSIVE fillSectors(_, _, _)
fillSectors(base, strict, floorSlots) ==
    IF floorSlots = <<>> THEN <<>>
    ELSE LET init == fillSectors(base, strict, SubSeq(floorSlots, 1, Len(floorSlots) - 1))
             s == floorSlots[Len(floorSlots)]
         IN IF s.slots <= 0 THEN init
            ELSE init \o fillSectorWithFallback(InSector(base, s.sector), strict, s.slots)

\* A backfill that is never made.
backfillNone(base, strict, chosen, totalSlots) == chosen

\* The backfill (lines 306-317).
backfill(base, strict, chosen, totalSlots) ==
    LET deficit == totalSlots - Len(chosen)
        chosenTickers == TickersOf(chosen)
    IN IF deficit > 0
       THEN chosen \o Take(SortRanked(screenRows(
                SelectSeq(base, LAMBDA r : r.ticker \notin chosenTickers), strict)), deficit)
       ELSE chosen

Allocation(r, sector, dollars) == [ticker |-> r.ticker, sector |-> sector, dollars |-> dollars]

weightOf(weights, sector) ==
    IF \E i \in 1..Len(weights) : weights[i].sector = sector
    THEN weights[CHOOSE i \in 1..Len(weights) : weights[i].sector = sector].w
    ELSE Int2(0)

\* Dollars per sector bucket, equal weight inside the bucket (lines 322-340).
RECURSIVE allocateBuckets(_, _, _, _)
allocateBuckets(chosen, weights, amount, floorSlots) ==
    IF floorSlots = <<>> THEN <<>>
    ELSE LET init == allocateBuckets(chosen, weights, amount,
                                     SubSeq(floorSlots, 1, Len(floorSlots) - 1))
             s == floorSlots[Len(floorSlots)]
             names == Take(InSector(chosen, s.sector), s.slots)
             sectorDollars == RMul(amount, weightOf(weights, s.sector))
         IN IF s.slots <= 0 \/ names = <<>> THEN init
            ELSE init \o [i \in 1..Len(names) |->
                             Allocation(names[i], s.sector,
                                        RDiv(sectorDollars, Int2(Len(names))))]

\* The padding (lines 342-358).
pad(allocations, chosen, amount, totalSlots) ==
    LET chosenTickers == TickersOf(allocations)
        left == SelectSeq(chosen, LAMBDA r : r.ticker \notin chosenTickers)
        perName == RDiv(amount, Int2(totalSlots))
        more == Take(left, IF Len(allocations) < totalSlots
                           THEN totalSlots - Len(allocations) ELSE 0)
    IN allocations \o [i \in 1..Len(more) |-> Allocation(more[i], sectorOf(more[i]), perName)]

\* The local floorSlots of buildPortfolioSectorBalanced after line 284.
floorSlotsOf(opts, sectorWeights) ==
    slotSplit(SelectSeq(normalizeWeights(sectorWeights), LAMBDA e : RLt(Int2(0), e.w)),
              IF opts.n > 1 THEN opts.n ELSE 1)

buildPortfolioSectorBalanced(rows, opts, sectorWeights) ==
    LET weights == normalizeWeights(sectorWeights)
        base == uniqByTicker(rows)
        sectors == SelectSeq(weights, LAMBDA e : RLt(Int2(0), e.w))
        totalSlots == IF opts.n > 1 THEN opts.n ELSE 1
        floorSlots == floorSlotsOf(opts, sectorWeights)
        strict == strictOf(opts)
        chosen == backfill(base, strict, fillSectors(base, strict, floorSlots), totalSlots)
        allocations == allocateBuckets(chosen, weights, opts.amount, floorSlots)
    IN IF sectors = <<>> \/ chosen = <<>> THEN <<>>
       ELSE Take(pad(allocations, chosen, opts.amount, totalSlots), totalSlots)

\* buildPortfolio: the legacy equal-weight builder (lines 225-250).
buildPortfolio(rows, opts) ==
    LET pool == SortRanked(screenRows(uniqByTicker(rows), strictOf(opts)))
        picks == Take(pool, opts.n)
    IN [i \in 1..Len(picks) |->
           [ticker |-> picks[i].ticker, sector |-> picks[i].sector,
            dollars |-> RDiv(opts.amount, Int2(Len(picks)))]]


\* ---- inputs of the portfolio model ----
MaxSlots == 3
Tech == <<"T","e","c","h">>
Util == <<"U","t","i","l","i","t","i","e","s">>
Energy == <<"E","n","e","r","g","y">>
DatasetRow(t, s, close, price, dy, cap) ==
    [ticker |-> t, sector |-> s, close |-> close, price |-> price, dy |-> dy, cap |-> cap]
RowPool ==
    << DatasetRow(<<"a","a","p","l"," ">>, Tech, Int2(100), Undefined, Undefined, Int2(3000)),
       DatasetRow(<<"M","S","F","T">>, Tech, Undefined, Int2(50), Int2(1), Int2(2500)),
       DatasetRow(<<"D","U","K">>, Util, Int2(80), Undefined, Int2(5), Int2(1200)),
       DatasetRow(<<"s","o">>, Util, Int2(60), Int2(61), Int2(3), Int2(1100)),
       DatasetRow(<<"N","E","E">>, Util, Int2(0), Undefined, Int2(6), Int2(2000)),
       DatasetRow(<<"X","O","M">>, Energy, Int2(40), Undefined, Int2(4), Int2(400)) >>

\* The rows of RowPool at the places of S, in the order of the pool.
RECURSIVE Pick(_, _)
Pick(pool, S) ==
    IF pool = <<>> THEN <<>>
    ELSE LET init == Pick(SubSeq(pool, 1, Len(pool) - 1), S)
         IN IF Len(pool) \in S THEN Append(init, pool[Len(pool)]) ELSE init
DatasetRowSets == {Pick(RowPool, S) : S \in SUBSET (1..Len(RowPool))}

IncludeLists == { <<>>, << <<"D","U","K">> >> }
ExcludeLists == { <<>>, << <<" ","s","o">> >> }
WeightMaps ==
    { << [sector |-> Util, w |-> Int2(1)] >>,
      << [sector |-> Util, w |-> Int2(1)], [sector |-> Tech, w |-> Int2(1)] >>,
      << [sector |-> Tech, w |-> Int2(3)], [sector |-> Energy, w |-> Int2(0)],
         [sector |-> Util, w |-> Int2(1)] >>,
      << [sector |-> Util, w |-> Int2(3)], [sector |-> Tech, w |-> Int2(4)],
         [sector |-> Energy, w |-> Int2(3)] >>,
      << [sector |-> Util, w |-> Int2(1)], [sector |-> Tech, w |-> Int2(1)],
         [sector |-> Energy, w |-> Int2(1)] >>,
      << [sector |-> Util, w |-> Int2(1)], [sector |-> Tech, w |-> Int2(2)] >>,
      << [sector |-> Util, w |-> Int2(0)] >> }
BuildOpts ==
    [amount : {Int2(1200)}, n : 0..MaxSlots,
     minDividendYield : {Undefined, Int2(4)},
     minMarketCap : {Undefined}, minPrice : {Undefined},
     include : IncludeLists, exclude : ExcludeLists,
     relaxYieldTo : {Undefined}, relaxYieldStep : {Undefined},
     relaxCapTo : {Undefined}, relaxCapFactor : {Undefined}]
    \cup
    [amount : {Int2(1200)}, n : 0..MaxSlots,
     minDividendYield : {Undefined, Int2(4)},
     minMarketCap : {Int2(1000)}, minPrice : {Int2(45)},
     include : IncludeLists, exclude : ExcludeLists,
     relaxYieldTo : {Int2(3)}, relaxYieldStep : {Int2(1)},
     relaxCapTo : {Int2(300)}, relaxCapFactor : {Undefined}]

FInit == pf = [pc |-> "idle"]

BuildPortfolioSectorBalanced ==
    /\ pf.pc = "idle"
    /\ \E rows \in DatasetRowSets, opts \in BuildOpts, w \in WeightMaps :
         pf' = [pc |-> "returned", op |-> "buildPortfolioSectorBalanced", rows |-> rows,
                opts |-> opts, weights |-> w, targetN |-> 0,
                slots |-> floorSlotsOf(opts, w),
                result |-> buildPortfolioSectorBalanced(rows, opts, w)]
    /\ UNCHANGED <<pvars, rvars, svars, hvars, ovars, ivars, zvars>>

BuildPortfolio ==
    /\ pf.pc = "idle"
    /\ \E rows \in DatasetRowSets, opts \in BuildOpts :
         pf' = [pc |-> "returned", op |-> "buildPortfolio", rows |-> rows,
                opts |-> opts, weights |-> <<>>, targetN |-> 0, slots |-> <<>>,
                result |-> buildPortfolio(rows, opts)]
    /\ UNCHANGED <<pvars, rvars, svars, hvars, ovars, ivars, zvars>>

FillSectorWithFallback ==
    /\ pf.pc = "idle"
    /\ \E rows \in DatasetRowSets, opts \in BuildOpts :
         pf' = [pc |-> "returned", op |-> "fillSectorWithFallback",
                rows |-> InSector(uniqByTicker(rows), Util), opts |-> opts,
                weights |-> <<>>, targetN |-> opts.n, slots |-> <<>>,
                result |-> fillSectorWithFallback(InSector(uniqByTicker(rows), Util),
                                                  strictOf(opts), opts.n)]
    /\ UNCHANGED <<pvars, rvars, svars, hvars, ovars, ivars, zvars>>

BuilderReturn ==
    /\ pf.pc = "returned"
    /\ pf' = [pc |-> "idle"]
    /\ UNCHANGED <<pvars, rvars, svars, hvars, ovars, ivars, zvars>>

FNext == BuildPortfolioSectorBalanced \/ BuildPortfolio \/ FillSectorWithFallback
         \/ BuilderReturn

InitPortfolio == PIdle /\ RIdle /\ SIdle /\ HIdle /\ OIdle /\ FInit /\ IIdle /\ ZIdle

SpecPortfolio == InitPortfolio /\ [][FNext]_vars


(***************************************************************************)
(* Claims about the portfolio builder                                      *)
(***************************************************************************)
Built(op) == pf.pc = "returned" /\ pf.op = op
Min(a, b) == IF a < b THEN a ELSE b

\* The rows of the call that keep a usable price, one per clean ticker.
PriceValidRows ==
    SelectSeq(uniqByTicker(pf.rows),
              LAMBDA r : LET px == Coalesce(r.close, r.price)
                         IN /\ px.def /\ px.n > 0
                            /\ (pf.opts.minPrice.def => RLe(pf.opts.minPrice, px)))
Excluded == {toUpperCase(trim(pf.opts.exclude[i])) : i \in 1..Len(pf.opts.exclude)}
EligibleRows == SelectSeq(PriceValidRows, LAMBDA r : r.ticker \notin Excluded)
WeightedSectors == {pf.weights[i].sector : i \in {j \in 1..Len(pf.weights) : pf.weights[j].w.n > 0}}
SectorHas(rows, s) == \E i \in 1..Len(rows) : sectorOf(rows[i]) = s
Dollars == SumOf([i \in 1..Len(pf.result) |-> pf.result[i].dollars], 1, Len(pf.result))
Allocated == {pf.result[i].ticker : i \in 1..Len(pf.result)}

\* C13: when every weighted sector has a price-valid candidate, the dollars
\* of the allocations of buildPortfolioSectorBalanced add up to amount.
C13_DollarsSumToAmount ==
    (Built("buildPortfolioSectorBalanced")
       /\ \A s \in WeightedSectors : SectorHas(PriceValidRows, s))
    => Dollars = pf.opts.amount

\* C14: when every weighted sector has an eligible candidate (price-valid and
\* not excluded), buildPortfolioSectorBalanced allocates min(n, number of
\* eligible candidates) names, each ticker once.
C14_AllocationCount ==
    (Built("buildPortfolioSectorBalanced") /\ pf.opts.n >= 1
       /\ \A s \in WeightedSectors : SectorHas(EligibleRows, s))
    => /\ Len(pf.result) = Min(pf.opts.n, Len(EligibleRows))
       /\ Cardinality(Allocated) = Len(pf.result)

\* C15: no ticker of opts.exclude is allocated by either builder, and the
\* allocations are the same whatever opts.include is.
C15_ExcludeAndInclude ==
    /\ (Built("buildPortfolio") \/ Built("buildPortfolioSectorBalanced"))
         => Allocated \cap Excluded = {}
    /\ Built("buildPortfolio") =>
         \A inc \in IncludeLists :
            pf.result = buildPortfolio(pf.rows, [pf.opts EXCEPT !.include = inc])
    /\ Built("buildPortfolioSectorBalanced") =>
         \A inc \in IncludeLists :
            pf.result = buildPortfolioSectorBalanced(
                            pf.rows, [pf.opts EXCEPT !.include = inc], pf.weights)

\* C16: fillSectorWithFallback returns min(targetN, P) rows, P being the
\* number of price-valid rows of the sector, whatever the floors are.
C16_FillSize ==
    Built("fillSectorWithFallback") =>
        Len(pf.result) = Min(pf.targetN, Len(PriceValidRows))

\* A sector with enough price-valid rows, too few of which pass the yield
\* floor, was filled to targetN.
C16_Witness ==
    /\ Built("fillSectorWithFallback")
    /\ pf.targetN = 2
    /\ Len(pf.result) = 2
    /\ pf.opts.minDividendYield.def
    /\ \E i \in 1..Len(pf.result) :
          pf.result[i].dy.def /\ RLt(pf.result[i].dy, pf.opts.minDividendYield)


(***************************************************************************)
(* Indicator functions called on their own: rsi of src/lib/technicals.ts   *)
(* (lines 8-20), rsiFromCloses and trendFromMomentum of part_000.          *)
(***************************************************************************)
\* The loop of rsi: <<gains, losses>> over values[i..]; a zero diff is a gain.
RECURSIVE RsiLoop(_, _, _, _)
RsiLoop(values, i, gains, losses) ==
    IF i > Len(values) THEN <<gains, losses>>
    ELSE LET diff == RSub(values[i], values[i - 1])
         IN IF RLe(Int2(0), diff)
            THEN RsiLoop(values, i + 1, RAdd(gains, diff), losses)
            ELSE RsiLoop(values, i + 1, gains, RSub(losses, diff))

\* An rsi that reports a flat or rising window as neutral.
rsiNeutral(values, period) ==
    IF Len(values) < period + 1 THEN Undefined
    ELSE LET gl == RsiLoop(values, Len(values) - period + 1, Int2(0), Int2(0))
             avgG == RDiv(gl[1], Int2(period))
             avgL == RDiv(gl[2], Int2(period))
         IN IF IsZero(avgL) THEN Int2(50)
            ELSE RSub(Int2(100), RDiv(Int2(100), RAdd(Int2(1), RDiv(avgG, avgL))))

rsi(values, period) ==
    IF Len(values) < period + 1 THEN Undefined
    ELSE LET gl == RsiLoop(values, Len(values) - period + 1, Int2(0), Int2(0))
             avgG == RDiv(gl[1], Int2(period))
             avgL == RDiv(gl[2], Int2(period))
         IN IF IsZero(avgL) THEN Int2(100)
            ELSE RSub(Int2(100), RDiv(Int2(100), RAdd(Int2(1), RDiv(avgG, avgL))))

\* ---- inputs of the indicator model ----
MaxPoints == 4
MaxPeriod == 3
PricePoints == { Int2(1), Int2(2), Rat(5, 2) }
TrendInputs == { Undefined, Int2(-1), Rat(-1, 2), Int2(0), Rat(1, 2), Int2(1) }

IInit == ind = [pc |-> "idle"]

Rsi ==
    /\ ind.pc = "idle"
    /\ \E values \in SeqsOf(PricePoints, 0, MaxPoints), n \in 1..MaxPeriod :
         ind' = [pc |-> "returned", op |-> "rsi", values |-> values, n |-> n,
                 result |-> rsi(values, n)]
    /\ UNCHANGED <<pvars, rvars, svars, hvars, ovars, fvars, zvars>>

RsiFromCloses ==
    /\ ind.pc = "idle"
    /\ \E values \in SeqsOf(PricePoints, 0, MaxPoints), n \in 1..MaxPeriod :
         ind' = [pc |-> "returned", op |-> "rsiFromCloses", values |-> values, n |-> n,
                 result |-> rsiFromCloses(values, n)]
    /\ UNCHANGED <<pvars, rvars, svars, hvars, ovars, fvars, zvars>>

TrendFromMomentum ==
    /\ ind.pc = "idle"
    /\ \E mom \in TrendInputs, pctVsMA50 \in TrendInputs :
         ind' = [pc |-> "returned", op |-> "trendFromMomentum", mom |-> mom,
                 pctVsMA50 |-> pctVsMA50, result |-> trendFromMomentum(mom, pctVsMA50)]
    /\ UNCHANGED <<pvars, rvars, svars, hvars, ovars, fvars, zvars>>

\* toAscending over a series of finite numbers, as its callers filter it.
ToAscending ==
    /\ ind.pc = "idle"
    /\ \E values \in SeqsOf(PricePoints, 0, MaxPoints) :
         ind' = [pc |-> "returned", op |-> "toAscending", values |-> values, n |-> 0,
                 result |-> toAscending(values)]
    /\ UNCHANGED <<pvars, rvars, svars, hvars, ovars, fvars, zvars>>

IndicatorReturn ==
    /\ ind.pc = "returned"
    /\ ind' = [pc |-> "idle"]
    /\ UNCHANGED <<pvars, rvars, svars, hvars, ovars, fvars, zvars>>

INext == Rsi \/ RsiFromCloses \/ TrendFromMomentum \/ ToAscending \/ IndicatorReturn

InitIndicators == PIdle /\ RIdle /\ SIdle /\ HIdle /\ OIdle /\ FIdle /\ IInit /\ ZIdle

SpecIndicators == InitIndicators /\ [][INext]_vars

(***************************************************************************)
(* Claims about the indicator functions                                    *)
(***************************************************************************)
RsiReturned == ind.pc = "returned" /\ ind.op \in {"rsi", "rsiFromCloses"}

\* The signs of the last n deltas of the series of the call.
WindowDeltas ==
    {RSub(ind.values[i], ind.values[i - 1]) :
        i \in (Len(ind.values) - ind.n + 1)..Len(ind.values)}
FallsInWindow == \E d \in WindowDeltas : d.n < 0
RisesInWindow == \E d \in WindowDeltas : d.n > 0

\* C17: rsi and rsiFromCloses are undefined for a series of n or fewer
\* points; for a longer one the value lies in [0, 100], is 100 exactly when
\* none of the last n deltas is negative, and is 0 only when the window falls
\* and never rises.
C17_RsiRange ==
    RsiReturned =>
        IF Len(ind.values) <= ind.n THEN ~ind.result.def
        ELSE /\ ind.result.def
             /\ RLe(Int2(0), ind.result) /\ RLe(ind.result, Int2(100))
             /\ (ind.result = Int2(100)) <=> ~FallsInWindow
             /\ (ind.result = Int2(0)) => (FallsInWindow /\ ~RisesInWindow)

\* rsi of an all-equal series of more than n points is 100.
C17_Witness ==
    /\ ind.pc = "returned" /\ ind.op = "rsi"
    /\ Len(ind.values) = ind.n + 1
    /\ ind.n = 3
    /\ \A i \in 1..Len(ind.values) : ind.values[i] = ind.values[1]
    /\ ind.result = Int2(100)

Beyond(x) == IF x.def /\ 2 * x.n > x.d THEN "up"
             ELSE IF x.def /\ 2 * x.n < -x.d THEN "down" ELSE "within"

\* C18: a momentum beyond +-0.5 decides the trend by its sign whatever
\* pctVsMA50 is; otherwise a pctVsMA50 beyond +-0.5 decides it; otherwise the
\* trend is flat.
C18_MomentumFirst ==
    (ind.pc = "returned" /\ ind.op = "trendFromMomentum") =>
        ind.result = IF Beyond(ind.mom) # "within" THEN Beyond(ind.mom)
                     ELSE IF Beyond(ind.pctVsMA50) # "within" THEN Beyond(ind.pctVsMA50)
                     ELSE "flat"

\* A rising momentum met a pctVsMA50 below -0.5 and the trend is up.
C18_Witness ==
    /\ ind.pc = "returned" /\ ind.op = "trendFromMomentum"
    /\ ind.mom = Int2(1)
    /\ ind.pctVsMA50 = Int2(-1)
    /\ ind.result = "up"

\* C26: toAscending is idempotent; its result does not start above its end;
\* it is the series turned round when the series starts above its end and
\* the series itself otherwise.
C26_AscendingIdempotent ==
    (ind.pc = "returned" /\ ind.op = "toAscending") =>
        LET s == ind.values
            r == ind.result
            n == Len(s)
        IN /\ toAscending(r) = r
           /\ Len(r) = n
           /\ n >= 1 => RLe(r[1], r[n])
           /\ IF n >= 2 /\ RLt(s[n], s[1])
              THEN \A i \in 1..n : r[i] = s[n + 1 - i]
              ELSE r = s

\* A series that starts above its end and is not sorted either way was
\* turned round, and is still not sorted.
C26_Witness ==
    /\ ind.pc = "returned" /\ ind.op = "toAscending"
    /\ Len(ind.values) = 3
    /\ RLt(ind.values[2], ind.values[3]) /\ RLt(ind.values[3], ind.values[1])
    /\ ind.result = Reverse(ind.values)
    /\ RLt(ind.result[2], ind.result[1])


\* The sectors of the call with a positive weight, the sum of their weights
\* and the exact share of the slots of a sector.
PositiveWeights == SelectSeq(pf.weights, LAMBDA e : e.w.n > 0)
WeightTotal == SumOf([i \in 1..Len(PositiveWeights) |-> PositiveWeights[i].w],
                     1, Len(PositiveWeights))
SlotShare(sector) ==
    LET e == PositiveWeights[CHOOSE i \in 1..Len(PositiveWeights) :
                                 PositiveWeights[i].sector = sector]
    IN RDiv(RMul(Int2(IF pf.opts.n > 1 THEN pf.opts.n ELSE 1), e.w), WeightTotal)
ShareFloor(sector) == SlotShare(sector).n \div SlotShare(sector).d
ShareRest(sector) == RSub(SlotShare(sector), Int2(ShareFloor(sector)))
SlotsOf(sector) ==
    pf.slots[CHOOSE i \in 1..Len(pf.slots) : pf.slots[i].sector = sector].slots
GotExtra(sector) == SlotsOf(sector) = ShareFloor(sector) + 1

\* C21: the slot split of buildPortfolioSectorBalanced over the sectors with
\* a positive normalized weight is a largest-remainder apportionment: every
\* such sector has one entry, the slots add up to max(1, n), a sector gets
\* the floor of its share or one more, no sector without the extra slot has
\* a larger remainder than one with it, and of two sectors with the same
\* remainder the one whose name sorts first gets the extra slot.
C21_LargestRemainder ==
    (Built("buildPortfolioSectorBalanced") /\ PositiveWeights # <<>>) =>
      LET S == {PositiveWeights[i].sector : i \in 1..Len(PositiveWeights)}
      IN /\ Len(pf.slots) = Len(PositiveWeights)
         /\ {pf.slots[i].sector : i \in 1..Len(pf.slots)} = S
         /\ SumSlots(pf.slots) = (IF pf.opts.n > 1 THEN pf.opts.n ELSE 1)
         /\ \A s \in S : SlotsOf(s) \in {ShareFloor(s), ShareFloor(s) + 1}
         /\ \A s, t \in S :
              (GotExtra(s) /\ ~GotExtra(t)) =>
                 /\ RLe(ShareRest(t), ShareRest(s))
                 /\ ShareRest(t) = ShareRest(s) => localeBefore(s, t)

\* Two sectors had the same remainder and one slot was left for them: it went
\* to the name that sorts first, which comes later in the weight map; and in
\* the same split a sector with a larger remainder got its extra slot.
C21_Witness ==
    /\ Built("buildPortfolioSectorBalanced")
    /\ Len(PositiveWeights) = 3
    /\ \E s, t, u \in {PositiveWeights[i].sector : i \in 1..Len(PositiveWeights)} :
         /\ GotExtra(s) /\ ~GotExtra(t) /\ GotExtra(u)
         /\ ShareRest(s) = ShareRest(t)
         /\ RLt(ShareRest(s), ShareRest(u))
         /\ \E i, j \in 1..Len(pf.weights) :
              i < j /\ pf.weights[i].sector = t /\ pf.weights[j].sector = s



(***************************************************************************)
(* fillSectorWithFallback statement by statement (part_009, lines 181-220) *)
(* One call is in progress at a time; fill.pool is the pool the code holds *)
(* and fill.prev the pool it held before the last reassignment.            *)
(***************************************************************************)
NoPool == [def |-> FALSE]
PoolOf(rows) == [def |-> TRUE, rows |-> rows]

\* The tuning of a call (lines 186-189).  Without strict.relaxCapTo the cap
\* floor to reach is 5,000,000,000, above every cap of the model.
relaxYieldToOf(strict) == Coalesce(strict.relaxYieldTo, DEFAULT_RELAX_YIELD_TO)
relaxYieldStepOf(strict) == Coalesce(strict.relaxYieldStep, DEFAULT_RELAX_YIELD_STEP)
relaxCapFactorOf(strict) == Coalesce(strict.relaxCapFactor, DEFAULT_RELAX_CAP_FACTOR)

\* while (pool.length < targetN && minY > relaxYieldTo)
YieldLoopOn(f) ==
    Len(f.pool) < f.targetN /\ RLt(relaxYieldToOf(f.strict), f.minY)
\* while (pool.length < targetN && minC > relaxCapTo)
CapLoopOn(f) ==
    /\ Len(f.pool) < f.targetN
    /\ f.strict.relaxCapTo.def /\ RLt(f.strict.relaxCapTo, f.minC)

\* if (pool.length >= targetN) return pool.slice(0, targetN), else go on at
\* the statement named next
Repooled(f, pool, next) ==
    LET g == [f EXCEPT !.prev = PoolOf(f.pool), !.pool = pool]
    IN IF Len(pool) >= f.targetN
       THEN [g EXCEPT !.pc = "returned", !.result = Take(pool, f.targetN)]
       ELSE [g EXCEPT !.pc = next]

\* ---- inputs ----
MaxTarget == 2
FillPool ==
    << DatasetRow(<<"D","U","K">>, Util, Int2(80), Undefined, Int2(5), Int2(1200)),
       DatasetRow(<<"S","O">>, Util, Int2(60), Undefined, Int2(3), Int2(900)),
       DatasetRow(<<"N","E","E">>, Util, Int2(0), Undefined, Int2(6), Int2(2000)),
       DatasetRow(<<"E","D">>, Util, Int2(70), Undefined, Rat(-1, 1), Int2(1500)) >>
FillRowSets == {Pick(FillPool, S) : S \in SUBSET (1..Len(FillPool))}
FillScreens ==
    [minYield : {Undefined, Int2(4)}, minMktCap : {Undefined, Int2(1000)},
     minPrice : {Int2(0)}, include : {<<>>}, exclude : {<<>>},
     relaxYieldTo : {Undefined, Int2(3)},
     relaxYieldStep : {Undefined, Int2(1), Int2(0)},
     relaxCapTo : {Undefined, Int2(300)},
     relaxCapFactor : {Undefined, Int2(1)}]

LInit == fill = [pc |-> "idle"]

\* Lines 186-196 and 204: the strict pool, and the starting floors.
FillCall ==
    /\ fill.pc = "idle"
    /\ \E sectorRows \in FillRowSets, strict \in FillScreens, targetN \in 1..MaxTarget :
         fill' = [Repooled([pc |-> "strict", sectorRows |-> sectorRows,
                            strict |-> strict, targetN |-> targetN,
                            minY |-> Coalesce(strict.minYield, Int2(0)),
                            minC |-> Coalesce(strict.minMktCap, Int2(0)),
                            pool |-> <<>>, prev |-> NoPool, result |-> <<>>],
                           SortRanked(screenRows(sectorRows, strict)), "yield")
                  EXCEPT !.prev = NoPool]
    /\ UNCHANGED notFill

\* One turn of the yield loop (lines 197-201).
FillRelaxYield ==
    /\ fill.pc = "yield" /\ YieldLoopOn(fill)
    /\ LET y == RMax(relaxYieldToOf(fill.strict),
                     RSub(fill.minY, relaxYieldStepOf(fill.strict)))
       IN fill' = Repooled([fill EXCEPT !.minY = y],
                           SortRanked(screenRows(fill.sectorRows,
                                                 [fill.strict EXCEPT !.minYield = y])),
                           "yield")
    /\ UNCHANGED notFill

\* One turn of the cap loop (lines 205-209), entered when the yield loop is over.
FillRelaxCap ==
    /\ fill.pc \in {"yield", "cap"}
    /\ fill.pc = "yield" => ~YieldLoopOn(fill)
    /\ CapLoopOn(fill)
    /\ LET c == RMax(fill.strict.relaxCapTo,
                     Int2(Floor(RMul(fill.minC, relaxCapFactorOf(fill.strict)))))
       IN fill' = Repooled([fill EXCEPT !.minC = c],
                           SortRanked(screenRows(fill.sectorRows,
                               [fill.strict EXCEPT !.minYield = fill.minY, !.minMktCap = c])),
                           "cap")
    /\ UNCHANGED notFill

\* The last resort (lines 212-219), when both loops are over.
FillLastResort ==
    /\ fill.pc \in {"yield", "cap"}
    /\ fill.pc = "yield" => ~YieldLoopOn(fill)
    /\ ~CapLoopOn(fill)
    /\ LET pool == lastResort(fill.sectorRows, fill.strict)
       IN fill' = [fill EXCEPT !.pc = "returned", !.prev = PoolOf(fill.pool),
                               !.pool = pool, !.result = Take(pool, fill.targetN)]
    /\ UNCHANGED notFill

FillReturn ==
    /\ fill.pc = "returned"
    /\ fill' = [pc |-> "idle"]
    /\ UNCHANGED notFill

LNext == FillCall \/ FillRelaxYield \/ FillRelaxCap \/ FillLastResort \/ FillReturn

InitFill == PIdle /\ RIdle /\ SIdle /\ HIdle /\ OIdle /\ FIdle /\ IIdle /\ LInit /\ CIdle /\ DIdle /\ BIdle

SpecFill == InitFill /\ [][LNext]_vars

\* The statements of one call follow each other without a pause.
SpecFillFair ==
    SpecFill /\ WF_vars(FillRelaxYield) /\ WF_vars(FillRelaxCap) /\ WF_vars(FillLastResort)



(***************************************************************************)
(* Claims about the fallback sequence of fillSectorWithFallback            *)
(***************************************************************************)
\* C22: along the fallback sequence (strict screen, yield relaxations, cap
\* relaxations, last resort) the pool of a step has at least as many rows
\* as the pool of the step before it.
C22_PoolNeverShrinks ==
    (fill.pc # "idle" /\ fill.prev.def) => Len(fill.pool) >= Len(fill.prev.rows)


\* C29: every call of fillSectorWithFallback returns: neither the yield loop
\* nor the cap loop goes on for ever, whatever the tuning is.
C29_FillTerminates == (fill.pc \in {"yield", "cap"}) ~> (fill.pc = "returned")



(***************************************************************************)
(* Overlapping calls of getLiveQuote, getLiveMetrics and getLiveCloses     *)
(* (part_000, lines 265-310).  A call runs to its await at once: it looks  *)
(* the key up and, on a miss, has finnhubGet send its request.  It goes on *)
(* when the answer is there, at an instant of its own.  race.fetches       *)
(* counts the requests sent, race.lastDone names the call that missed and  *)
(* completed last, per kind of lookup.                                     *)
(***************************************************************************)
MaxRacers == 2
Racers == 1..MaxRacers
RaceOps == {"quote", "metric", "candle"}
RaceAnswers(op) ==
    IF op = "quote" THEN {QuoteJson(Int2(150)), QuoteJson(Int2(151))}
    ELSE IF op = "metric" THEN {MetricJson(Int2(200)), MetricJson(Int2(201))}
    ELSE {CandleJson(Nums(<<10, 12>>)), CandleJson(Nums(<<11>>))}

cacheOf(op) ==
    IF op = "quote" THEN quoteCache
    ELSE IF op = "metric" THEN metricCache ELSE candleCache
ttlOf(op) ==
    IF op = "quote" THEN TTL_QUOTE
    ELSE IF op = "metric" THEN TTL_METRIC ELSE TTL_CANDLE
\* What a call returns from a fresh entry.
hitOf(op, t) ==
    IF op = "candle" THEN Closes(candleCache[t].data) ELSE cacheOf(op)[t].data
fetchedOf(op, t, resp) ==
    IF op = "quote" THEN quoteFetched(t, resp)
    ELSE IF op = "metric" THEN metricFetched(t, resp) ELSE closesFetched(t, resp)

NewCall == [pc |-> "new"]

CRInit ==
    /\ upstream \in CacheUpstreams
    /\ FINNHUB_KEY = upstream.key
    /\ clock = 0 /\ ticks = 0 /\ calls = 0
    /\ quoteCache = NoMap /\ metricCache = NoMap /\ candleCache = NoMap
    /\ datasetCache = NoMap
    /\ last = [op |-> "none"]
    /\ qs = [pc |-> "idle"]
    /\ race = [on |-> TRUE, calls |-> [i \in Racers |-> NewCall],
               fetches |-> [op \in RaceOps |-> 0],
               lastDone |-> [op \in RaceOps |-> 0]]

\* A call up to its await: the lookup (a hit returns at once), else the
\* request of finnhubGet, sent when the key is set.
RaceCall ==
    /\ race.on
    /\ \E i \in Racers, op \in RaceOps, ticker \in StatTickers :
         LET t == normT(ticker)
         IN /\ race.calls[i].pc = "new"
            /\ race' =
                 IF Served(cacheOf(op), t, ttlOf(op))
                 THEN [race EXCEPT !.calls[i] =
                          [pc |-> "done", op |-> op, t |-> t, hit |-> TRUE,
                           at |-> clock, ret |-> hitOf(op, t)]]
                 ELSE [race EXCEPT !.calls[i] =
                          [pc |-> "fetching", op |-> op, t |-> t, hit |-> FALSE,
                           at |-> 0, ret |-> NoPrice],
                                   !.fetches[op] = @ + (IF FINNHUB_KEY THEN 1 ELSE 0)]
    /\ UNCHANGED <<notRace, clock, ticks, calls, FINNHUB_KEY, upstream, quoteCache,
                   metricCache, candleCache, datasetCache, last, qs>>

\* A call from its await on: the answer is turned into data, stored as the
\* function stores it, and returned.  Time has moved on when the next
\* statement of any call runs.
RaceComplete ==
    /\ race.on
    /\ \E i \in Racers :
         /\ race.calls[i].pc = "fetching"
         /\ \E kind \in OutcomeKinds, json \in RaceAnswers(race.calls[i].op) :
              LET c == race.calls[i]
                  r == fetchedOf(c.op, c.t, Response(kind, json))
              IN /\ quoteCache' = IF c.op = "quote" THEN r.cache ELSE quoteCache
                 /\ metricCache' = IF c.op = "metric" THEN r.cache ELSE metricCache
                 /\ candleCache' = IF c.op = "candle" THEN r.cache ELSE candleCache
                 /\ race' = [race EXCEPT !.calls[i] = [c EXCEPT !.pc = "done",
                                                            !.at = clock, !.ret = r.ret],
                                         !.lastDone[c.op] = i]
    /\ clock' = clock + 1
    /\ UNCHANGED <<notRace, ticks, calls, FINNHUB_KEY, upstream, datasetCache, last, qs>>

CRNext == RaceCall \/ RaceComplete

InitRace == PIdle /\ RIdle /\ CRInit /\ HIdle /\ OIdle /\ FIdle /\ IIdle /\ LIdle /\ DIdle /\ BIdle

SpecRace == InitRace /\ [][CRNext]_vars



(***************************************************************************)
(* Claims about overlapping lookups                                        *)
(***************************************************************************)
RaceKey == <<"A","A","P","L">>
Missed(op) == {i \in Racers : race.calls[i].pc # "new" /\ race.calls[i].op = op
                              /\ ~race.calls[i].hit}
Settled(op) ==
    /\ Missed(op) # {}
    /\ \A i \in Missed(op) : race.calls[i].pc = "done"
\* What the cache holds after the call i has stored what it returned.
EntryOf(op, i) ==
    [t |-> race.calls[i].at,
     data |-> IF op = "candle" THEN race.calls[i].ret.data ELSE race.calls[i].ret]
HoldsEntryOf(op, i) ==
    RaceKey \in DOMAIN cacheOf(op) /\ cacheOf(op)[RaceKey] = EntryOf(op, i)
\* Every entry is what a completed call of that kind was given.
EntriesWereFetched ==
    \A op \in RaceOps :
       RaceKey \in DOMAIN cacheOf(op) =>
          \E i \in Missed(op) : race.calls[i].pc = "done" /\ HoldsEntryOf(op, i)
\* The calls whose candle request brought closes.
Brought == {i \in Missed("candle") : race.calls[i].pc = "done" /\ ~race.calls[i].ret.isNull}

PricedTickers == Range(tickers) \cap DOMAIN resolveResult.prices

\* C28: in the result of resolvePrices no ticker has both a price and an
\* errors entry (a ticker that an earlier provider failed on and a later
\* provider resolved is absent from errors), and filled is the number of
\* requested distinct tickers that have a price.
C28_PriceOrError ==
    pc = "done" =>
      /\ DOMAIN resolveResult.prices \cap DOMAIN resolveResult.errors = {}
      /\ resolveResult.filled = Cardinality(PricedTickers)


(***************************************************************************)
(* /api/portfolio (part_019): the paper-trading ledger, POST               *)
(***************************************************************************)
MAX_CASH == 10000

\* Arithmetic and comparisons of JavaScript numbers, NaN included (NaN is
\* Undefined): an operation on NaN is NaN, a comparison with NaN is false.
NAdd(x, y) == IF x.def /\ y.def THEN RAdd(x, y) ELSE Undefined
NSub(x, y) == IF x.def /\ y.def THEN RSub(x, y) ELSE Undefined
NMul(x, y) == IF x.def /\ y.def THEN RMul(x, y) ELSE Undefined
NDiv(x, y) == IF x.def /\ y.def /\ y.n # 0 THEN RDiv(x, y) ELSE Undefined
NGt(x, y) == x.def /\ y.def /\ RLt(y, x)
NLe(x, y) == x.def /\ y.def /\ RLe(x, y)
Zero == Int2(0)

\* Math.floor(Math.max(0, Number(body?.shares || 0))) (line 211); raw is
\* Number(body.shares), NaN for a text that is not a number.
sharesOf(raw) ==
    IF ~raw.def THEN Undefined
    ELSE IF raw.n <= 0 THEN Zero ELSE Int2(raw.n \div raw.d)

\* The test of /^[A-Z][A-Z.\-]{0,6}$/ (lines 239-241).
validTicker(s) ==
    /\ Len(s) \in 1..7
    /\ IsUpper(s[1])
    /\ \A i \in 2..Len(s) : IsUpper(s[i]) \/ s[i] \in {".", "-"}

\* The live price when it is a positive number, else the dataset close when
\* that is a number, else NaN (lines 248-254).
priceOf(live, fb) ==
    IF NGt(live, Zero) THEN live ELSE IF fb.def THEN fb ELSE Undefined

\* Number(pfRow?.cash ?? MAX_CASH) (lines 174 and 267): a null cash reads
\* as the starting cash.
cashOf(stored) == Coalesce(stored, Int2(MAX_CASH))

\* Inputs.  The requests of one user; the texts with what resolveTicker
\* makes of them; Number(body.shares); the two price lookups.
MaxOrders == 3
Requesters == {1, 2}
LedgerActions == {"buy", "sell", "reset", "hold"}
LedgerTexts ==
    {[text |-> <<"a","p","p","l","e">>, resolved |-> <<"A","A","P","L">>],
     [text |-> <<"a","a"," ","p","l">>, resolved |-> <<>>],
     [text |-> <<"1","x">>, resolved |-> <<>>]}
RawShares == {Undefined, Int2(-1), Zero, Int2(1), Rat(5, 2)}
LivePrices == {Undefined, Int2(4000)}
FallbackPrices == {Undefined, Zero, Int2(2500)}

NoRequest == [pc |-> "idle"]
Rejected(why) == [pc |-> "rejected", error |-> why, wrote |-> FALSE]

\* The tables demo_portfolio_cash and demo_portfolio_positions of the user,
\* the requests in flight, and the books kept beside them: what the accepted
\* buys cost and the accepted sells brought since the last reset.
BInit ==
    led = [on |-> TRUE, cash |-> Undefined, pos |-> NoMap,
           req |-> [i \in Requesters |-> NoRequest],
           spent |-> Zero, earned |-> Zero, orders |-> 0]

\* POST up to the read of cash: the body, ensurePortfolio (the row of the
\* user exists from here on, its cash untouched), the checks of action,
\* shares and ticker, and the price (lines 190-258).  The tolerance 1e-6 of
\* line 281 is below the cent, the grain of every amount here.
PostBegin ==
    /\ led.on /\ led.orders < MaxOrders
    /\ \E i \in Requesters, action \in LedgerActions, x \in LedgerTexts,
          raw \in RawShares, live \in LivePrices, fb \in FallbackPrices :
         LET shares == sharesOf(raw)
             \* (resolved || ticker).toUpperCase().replace(/\s+/g, ""), with
             \* <<>> for the null of resolveTicker (lines 237-238)
             ticker == SelectSeq(toUpperCase(IF x.resolved = <<>> THEN x.text
                                             ELSE x.resolved),
                                 LAMBDA c : c # " ")
             price == priceOf(live, fb)
         IN /\ led.req[i].pc = "idle"
            /\ led' = [led EXCEPT !.orders = @ + 1, !.req[i] =
                 IF action = "reset" THEN [pc |-> "resetDelete"]
                 ELSE IF action \notin {"buy", "sell"} THEN Rejected("Invalid action")
                 ELSE IF NLe(shares, Zero) THEN Rejected("Shares must be > 0")
                 ELSE IF ~validTicker(ticker) THEN Rejected("Invalid ticker")
                 ELSE IF ~price.def \/ NLe(price, Zero)
                      THEN Rejected("No live price for ticker")
                 ELSE [pc |-> "readCash", action |-> action, ticker |-> ticker,
                       shares |-> shares, price |-> price]]
    /\ UNCHANGED notLedger

\* The read of the cash row (lines 261-267).
ReadCash ==
    /\ led.on
    /\ \E i \in Requesters :
         /\ led.req[i].pc = "readCash"
         /\ led' = [led EXCEPT !.req[i] =
                      [pc |-> "readPosition", action |-> @.action,
                       ticker |-> @.ticker, shares |-> @.shares,
                       price |-> @.price, cash |-> cashOf(led.cash)]]
    /\ UNCHANGED notLedger

\* The read of the position and the check of the order: the cost against the
\* cash read, the shares sold against the shares held (lines 269-288, 307-311).
ReadPosition ==
    /\ led.on
    /\ \E i \in Requesters :
         LET r == led.req[i]
             \* Number(posRow?.shares || 0), Number(posRow?.avg_price || 0)
             posRow(field) == IF r.ticker \in DOMAIN led.pos
                                   /\ led.pos[r.ticker][field].def
                              THEN led.pos[r.ticker][field] ELSE Zero
             existingShares == posRow("shares")
             existingAvg == posRow("avg_price")
             amount == NMul(r.shares, r.price)
             newShares == IF r.action = "buy" THEN NAdd(existingShares, r.shares)
                          ELSE NSub(existingShares, r.shares)
             newAvg == IF newShares = Zero THEN Zero
                       ELSE NDiv(NAdd(NMul(existingAvg, existingShares), amount),
                                 newShares)
         IN /\ r.pc = "readPosition"
            /\ led' = [led EXCEPT !.req[i] =
                 IF r.action = "buy" /\ NGt(amount, r.cash)
                 THEN Rejected("Insufficient cash")
                 ELSE IF r.action = "sell" /\ NGt(r.shares, existingShares)
                 THEN Rejected("Not enough shares to sell")
                 ELSE [pc |-> "writePosition", action |-> r.action,
                       ticker |-> r.ticker, cash |-> r.cash, amount |-> amount,
                       newShares |-> newShares,
                       newAvg |-> IF r.action = "buy" THEN newAvg ELSE existingAvg]]
    /\ UNCHANGED notLedger

\* The write of the position: the upsert of a buy (lines 290-297), the delete
\* or the update of a sell (lines 313-327).  A NaN goes out as null, and
\* whether the table takes a null is the schema's choice: stored, or an
\* error that the handler throws.
WritePosition ==
    /\ led.on
    /\ \E i \in Requesters, taken \in BOOLEAN :
         LET r == led.req[i]
             row == [shares |-> r.newShares, avg_price |-> r.newAvg]
             held == r.ticker \in DOMAIN led.pos
             pos == IF r.action = "buy"
                    THEN [t \in DOMAIN led.pos \cup {r.ticker} |->
                            IF t = r.ticker THEN row ELSE led.pos[t]]
                    ELSE IF r.newShares = Zero
                    THEN [t \in DOMAIN led.pos \ {r.ticker} |-> led.pos[t]]
                    ELSE IF held THEN [led.pos EXCEPT ![r.ticker].shares = r.newShares]
                    ELSE led.pos
             null == ~r.newShares.def /\ (r.action = "buy" \/ held)
         IN /\ r.pc = "writePosition"
            /\ taken \/ null
            /\ led' = IF taken
                      THEN [led EXCEPT !.pos = pos,
                                       !.req[i] = [pc |-> "writeCash",
                                                   action |-> r.action,
                                                   cash |-> r.cash,
                                                   amount |-> r.amount]]
                      ELSE [led EXCEPT !.req[i] = [pc |-> "threw", wrote |-> FALSE]]
    /\ UNCHANGED notLedger

\* The write of the cash: the cash read at line 267 less the cost, or plus
\* the proceeds (lines 299-304 and 329-334).
WriteCash ==
    /\ led.on
    /\ \E i \in Requesters, taken \in BOOLEAN :
         LET r == led.req[i]
             cash == IF r.action = "buy" THEN NSub(r.cash, r.amount)
                     ELSE NAdd(r.cash, r.amount)
         IN /\ r.pc = "writeCash"
            /\ taken \/ ~cash.def
            /\ led' = IF taken
                      THEN [led EXCEPT
                              !.cash = cash,
                              !.spent = IF r.action = "buy" THEN NAdd(@, r.amount) ELSE @,
                              !.earned = IF r.action = "sell" THEN NAdd(@, r.amount) ELSE @,
                              !.req[i] = [pc |-> "done", wrote |-> TRUE]]
                      ELSE [led EXCEPT !.req[i] = [pc |-> "threw", wrote |-> TRUE]]
    /\ UNCHANGED notLedger

\* reset, first the positions (lines 216-220) ...
ResetDelete ==
    /\ led.on
    /\ \E i \in Requesters :
         /\ led.req[i].pc = "resetDelete"
         /\ led' = [led EXCEPT !.pos = NoMap, !.req[i] = [pc |-> "resetCash"]]
    /\ UNCHANGED notLedger

\* ... then the cash (lines 221-225); the books start again.
ResetCash ==
    /\ led.on
    /\ \E i \in Requesters :
         /\ led.req[i].pc = "resetCash"
         /\ led' = [led EXCEPT !.cash = Int2(MAX_CASH),
                               !.spent = Zero, !.earned = Zero,
                               !.req[i] = [pc |-> "done", wrote |-> TRUE]]
    /\ UNCHANGED notLedger

\* The response is out: the 400 of a rejected order, the 500 of a thrown
\* error, or the portfolio as GET reads it (lines 226 and 337).
PostRespond ==
    /\ led.on
    /\ \E i \in Requesters :
         /\ led.req[i].pc \in {"rejected", "threw", "done"}
         /\ led' = [led EXCEPT !.req[i] = NoRequest]
    /\ UNCHANGED notLedger

BNext ==
    PostBegin \/ ReadCash \/ ReadPosition \/ WritePosition \/ WriteCash
      \/ ResetDelete \/ ResetCash \/ PostRespond

InitLedger ==
    PIdle /\ RIdle /\ SIdle /\ HIdle /\ OIdle /\ FIdle /\ IIdle /\ LIdle /\ CIdle
      /\ DIdle /\ BInit

SpecLedger == InitLedger /\ [][BNext]_vars


\* The cash as the handler and GET read it.
CashNow == cashOf(led.cash)
Books == NAdd(NSub(Int2(MAX_CASH), led.spent), led.earned)

\* C30: in the ledger of /api/portfolio, for a user starting from a reset,
\* the cash is never negative, every stored position has a positive share
\* count, the cash is 10000 less the cost of the accepted buys plus the
\* proceeds of the accepted sells since the last reset, a rejected request
\* has written neither cash nor positions, and all of this holds as well when
\* two requests of the user interleave between the read and the write of cash.
C30_LedgerAccounting ==
    led.on =>
      /\ NLe(Zero, CashNow)
      /\ \A t \in DOMAIN led.pos : NGt(led.pos[t].shares, Zero)
      /\ CashNow = Books
      /\ \A i \in Requesters : led.req[i].pc = "rejected" => ~led.req[i].wrote

====
